---- MODULE Spec2Model ----
(***************************************************************************)
(* Model of the matching engine of Placement-Assistance                    *)
(* (src/backend/algorithm.py): the job recommender recommend_jobs, the     *)
(* candidate ranker rank_candidates_for_job and their scoring helpers; and *)
(* of the handlers of src/backend/app.py that rewrite the jobs file and    *)
(* serve the recommendations.                                              *)
(*                                                                         *)
(* Numbers.  The Python code computes with floats.  The model computes     *)
(* with exact rationals, so that 1e-5 and 1e-10 keep their values and a    *)
(* product or a quotient is never rounded.  TLC's integers are 32 bits     *)
(* wide, so a rational is a sign, a numerator and a denominator, the last  *)
(* two being naturals written as sequences of base-10000 limbs, least      *)
(* significant first.                                                      *)
(***************************************************************************)
EXTENDS Integers, Sequences, FiniteSets

VARIABLES
    data,            \* the corpus table read at import, with "Experience Range"
    loaded,          \* TRUE iff the module-level fit at import succeeded
    argsortTies,     \* how this build's np.argsort orders equal keys
    sortValuesTies,  \* how this build's DataFrame.sort_values orders equal keys
    call,            \* the last call made: its name and arguments
    outcome,         \* "none", "returned" or "raised"
    result,          \* the list the last call returned
    locals,          \* the score arrays the last call computed
    previous,        \* the call before the last, its outcome and its result
    threads,         \* the calls of requests served at the same time
    JOBS_FILE,       \* jobs_info.csv on disk: its rows and its modification time
    userinfo_collection,         \* the profile of the user of the session
    recommendations_collection   \* the cached recommendations of that user

\* the state of the web application (src/backend/app.py)
appVars == <<JOBS_FILE, userinfo_collection, recommendations_collection>>

vars == <<data, loaded, argsortTies, sortValuesTies, call, outcome, result, locals,
          previous, threads, JOBS_FILE, userinfo_collection,
          recommendations_collection>>

-----------------------------------------------------------------------------
(* Natural numbers of any size *)

Base == 100 * 100

RECURSIVE BStrip(_)
BStrip(a) ==
    IF a = <<>> THEN <<>>
    ELSE IF a[Len(a)] = 0 THEN BStrip(SubSeq(a, 1, Len(a) - 1)) ELSE a

RECURSIVE BNat(_)
BNat(n) == IF n = 0 THEN <<>> ELSE <<n % Base>> \o BNat(n \div Base)

RECURSIVE BAddC(_, _, _)
BAddC(a, b, c) ==
    IF a = <<>> /\ b = <<>> THEN (IF c = 0 THEN <<>> ELSE <<c>>)
    ELSE LET x == IF a = <<>> THEN 0 ELSE Head(a)
             y == IF b = <<>> THEN 0 ELSE Head(b)
             s == x + y + c
         IN  <<s % Base>> \o BAddC(IF a = <<>> THEN <<>> ELSE Tail(a),
                                   IF b = <<>> THEN <<>> ELSE Tail(b),
                                   s \div Base)

BAdd(a, b) == BAddC(a, b, 0)

RECURSIVE BSubC(_, _, _)
BSubC(a, b, br) ==
    IF a = <<>> THEN <<>>
    ELSE LET y == IF b = <<>> THEN 0 ELSE Head(b)
             d == Head(a) - y - br
         IN  <<IF d < 0 THEN d + Base ELSE d>>
                 \o BSubC(Tail(a), IF b = <<>> THEN <<>> ELSE Tail(b),
                          IF d < 0 THEN 1 ELSE 0)

\* a - b for a >= b
BSub(a, b) == BStrip(BSubC(a, b, 0))

RECURSIVE BCmpFrom(_, _, _)
BCmpFrom(a, b, i) ==
    IF i = 0 THEN 0
    ELSE IF a[i] < b[i] THEN -1
    ELSE IF a[i] > b[i] THEN 1
    ELSE BCmpFrom(a, b, i - 1)

\* -1, 0 or 1 as a < b, a = b or a > b
BCmp(a, b) ==
    IF Len(a) < Len(b) THEN -1
    ELSE IF Len(a) > Len(b) THEN 1
    ELSE BCmpFrom(a, b, Len(a))

RECURSIVE BMulLimb(_, _, _)
BMulLimb(a, k, c) ==
    IF a = <<>> THEN (IF c = 0 THEN <<>> ELSE <<c>>)
    ELSE LET p == Head(a) * k + c
         IN  <<p % Base>> \o BMulLimb(Tail(a), k, p \div Base)

RECURSIVE BMul(_, _)
BMul(a, b) ==
    IF a = <<>> \/ b = <<>> THEN <<>>
    ELSE IF a = <<1>> THEN b
    ELSE IF b = <<1>> THEN a
    ELSE IF Len(b) = 1 THEN BMulLimb(a, b[1], 0)
    ELSE BAdd(BMulLimb(a, Head(b), 0), <<0>> \o BMul(a, Tail(b)))

-----------------------------------------------------------------------------
(* Rationals: [s |-> sign, n |-> |numerator|, d |-> denominator > 0] *)

\* an array holding its computed elements
Array(f) == f \o <<>>

Abs(i) == IF i < 0 THEN -i ELSE i
Sgn(i) == IF i < 0 THEN -1 ELSE IF i > 0 THEN 1 ELSE 0

RZero == [s |-> 0, n |-> <<>>, d |-> <<1>>]
ROne  == [s |-> 1, n |-> <<1>>, d |-> <<1>>]

RMk(s, n, d) == IF s = 0 \/ n = <<>> THEN RZero ELSE [s |-> s, n |-> n, d |-> d]

RInt(i) == RMk(Sgn(i), BNat(Abs(i)), <<1>>)

\* i / j for integers i and j > 0
RFrac(i, j) == RMk(Sgn(i), BNat(Abs(i)), BNat(j))

RNeg(p) == RMk(-p.s, p.n, p.d)

\* the sum of two signed numerators over one denominator d
RSum(s1, n1, s2, n2, d) ==
    IF s1 = 0 THEN RMk(s2, n2, d)
    ELSE IF s2 = 0 THEN RMk(s1, n1, d)
    ELSE IF s1 = s2 THEN RMk(s1, BAdd(n1, n2), d)
    ELSE LET c == BCmp(n1, n2)
         IN  IF c = 0 THEN RZero
             ELSE IF c > 0 THEN RMk(s1, BSub(n1, n2), d)
             ELSE RMk(s2, BSub(n2, n1), d)

RAdd(p, q) ==
    IF p.d = q.d THEN RSum(p.s, p.n, q.s, q.n, p.d)
    ELSE RSum(p.s, BMul(p.n, q.d), q.s, BMul(q.n, p.d), BMul(p.d, q.d))

RSub(p, q) == RAdd(p, RNeg(q))

RMul(p, q) == RMk(p.s * q.s, BMul(p.n, q.n), BMul(p.d, q.d))

\* p / q for q # 0
RDiv(p, q) ==
    IF p.d = q.d THEN RMk(p.s * q.s, p.n, q.n)
    ELSE RMk(p.s * q.s, BMul(p.n, q.d), BMul(p.d, q.n))

\* -1, 0 or 1 as p < q, p = q or p > q
RCmp(p, q) ==
    IF p.s # q.s THEN (IF p.s < q.s THEN -1 ELSE 1)
    ELSE IF p.s = 0 THEN 0
    ELSE IF p.d = q.d THEN p.s * BCmp(p.n, q.n)
    ELSE p.s * BCmp(BMul(p.n, q.d), BMul(q.n, p.d))

RLess(p, q) == RCmp(p, q) < 0
RLeq(p, q)  == RCmp(p, q) <= 0
REq(p, q)   == RCmp(p, q) = 0

\* Python's max(a, b): b when b > a, else a
PyMax(a, b) == IF RLess(a, b) THEN b ELSE a

InUnit(p) == RLeq(RZero, p) /\ RLeq(p, ROne)

-----------------------------------------------------------------------------
(* Strings are sequences of one-character strings *)

Digits == {"0", "1", "2", "3", "4", "5", "6", "7", "8", "9"}

DigitVal(ch) ==
    CASE ch = "0" -> 0 [] ch = "1" -> 1 [] ch = "2" -> 2 [] ch = "3" -> 3
      [] ch = "4" -> 4 [] ch = "5" -> 5 [] ch = "6" -> 6 [] ch = "7" -> 7
      [] ch = "8" -> 8 [] ch = "9" -> 9

\* re.findall(r"\d+", t): the maximal digit runs of t, left to right, each
\* read as int() reads it; cur is the run being read, -1 outside a run
RECURSIVE FindNumbers(_, _, _)
FindNumbers(t, cur, acc) ==
    IF t = <<>> THEN (IF cur >= 0 THEN Append(acc, cur) ELSE acc)
    ELSE IF Head(t) \in Digits
         THEN FindNumbers(Tail(t),
                          (IF cur < 0 THEN 0 ELSE cur) * 10 + DigitVal(Head(t)),
                          acc)
         ELSE FindNumbers(Tail(t), -1,
                          IF cur >= 0 THEN Append(acc, cur) ELSE acc)

\* a mutant of clean_experience: the smaller number first
clean_experience_ordered(experience) ==
    LET numbers == FindNumbers(experience, -1, <<>>)
        first == numbers[1]
        last == numbers[Len(numbers)]
    IN  IF numbers = <<>> THEN <<0, 0>>
        ELSE IF last < first THEN <<last, first>> ELSE <<first, last>>

clean_experience(experience) ==
    LET numbers == FindNumbers(experience, -1, <<>>)
    IN  IF numbers # <<>> THEN <<numbers[1], numbers[Len(numbers)]>>
        ELSE <<0, 0>>

-----------------------------------------------------------------------------
(* Experience similarity of the job recommender *)

EpsInv == 100000

\* the literal 1e-5
Eps == RFrac(1, EpsInv)

\* experience_similarity without the max(0, .) of its first branch
experience_similarity_unclamped(candidate_exp, job_exp_range) ==
    IF candidate_exp < job_exp_range[1]
    THEN RSub(ROne, RDiv(RInt(job_exp_range[1] - candidate_exp),
                         RAdd(RInt(job_exp_range[1]), Eps)))
    ELSE IF candidate_exp > job_exp_range[2]
    THEN PyMax(RZero,
               RSub(ROne, RDiv(RInt(candidate_exp - job_exp_range[2]),
                               RAdd(RInt(candidate_exp), Eps))))
    ELSE ROne

experience_similarity(candidate_exp, job_exp_range) ==
    IF candidate_exp < job_exp_range[1]
    THEN PyMax(RZero,
               RSub(ROne, RDiv(RInt(job_exp_range[1] - candidate_exp),
                               RAdd(RInt(job_exp_range[1]), Eps))))
    ELSE IF candidate_exp > job_exp_range[2]
    THEN PyMax(RZero,
               RSub(ROne, RDiv(RInt(candidate_exp - job_exp_range[2]),
                               RAdd(RInt(candidate_exp), Eps))))
    ELSE ROne

-----------------------------------------------------------------------------
(* TF-IDF rows.  TfidfVectorizer is library code.  A text is a sequence of  *)
(* words; its row is a vector of non-negative weights over the two terms    *)
(* of the model, and a term the fitted vocabulary lacks weighs 0.  The      *)
(* weights are chosen so that every row has an integer norm.                *)

Terms == {1, 2}

custom_tokenizer(text) == SelectSeq(text, LAMBDA w : w \in {"python", "sql"})

TermWeights(tokens) ==
    CASE tokens = <<"python">>        -> <<5, 0>>
      [] tokens = <<"sql">>           -> <<0, 5>>
      [] tokens = <<"python", "sql">> -> <<3, 4>>
      [] tokens = <<"sql", "python">> -> <<4, 3>>
      [] OTHER                        -> <<0, 0>>

\* the vocabulary fit_transform learns from a column of texts
FitVocabulary(texts) ==
    {k \in Terms : \E i \in 1..Len(texts) :
                       TermWeights(custom_tokenizer(texts[i]))[k] > 0}

\* vectorizer.transform([text]) against a fitted vocabulary
Transform(vocabulary, text) ==
    LET weights == TermWeights(custom_tokenizer(text))
    IN  <<IF 1 \in vocabulary THEN weights[1] ELSE 0,
          IF 2 \in vocabulary THEN weights[2] ELSE 0>>

-----------------------------------------------------------------------------
(* Cosine similarity *)

Sqrt(n) == CHOOSE r \in 0..n : r * r = n

\* np.linalg.norm of a row, a zero norm replaced by 1e-10
RowNorm(v) ==
    LET norm == Sqrt(v[1] * v[1] + v[2] * v[2])
    IN  IF norm = 0 THEN RMul(Eps, Eps) ELSE RInt(norm)

\* one entry of np.dot(matrix_a_norm, matrix_b_norm.T)
CosineRow(a, b) ==
    LET norm_a == RowNorm(a)
        norm_b == RowNorm(b)
    IN  RAdd(RMul(RDiv(RInt(a[1]), norm_a), RDiv(RInt(b[1]), norm_b)),
             RMul(RDiv(RInt(a[2]), norm_a), RDiv(RInt(b[2]), norm_b)))

\* a one-row matrix_a against the rows of matrix_b, flattened
cosine_similarity_manual(matrix_a, matrix_b) ==
    Array([j \in 1..Len(matrix_b) |-> CosineRow(matrix_a, matrix_b[j])])

-----------------------------------------------------------------------------
(* Sorting.  np.argsort and DataFrame.sort_values are called with their     *)
(* default kind, "quicksort", which numpy documents as not stable: the      *)
(* order of equal keys is whatever the build's algorithm makes it.  For one *)
(* build it is a fixed function of the array; the model has a build that    *)
(* keeps equal keys in index order and one that reverses them.              *)

TieOrders == {"stable", "reversed"}

RECURSIVE InsertIdx(_, _, _, _)
InsertIdx(sorted, i, keys, ties) ==
    IF sorted = <<>> THEN <<i>>
    ELSE LET c == RCmp(keys[Head(sorted)], keys[i])
         IN  IF c > 0 \/ (c = 0 /\ ties = "reversed")
             THEN <<i>> \o sorted
             ELSE <<Head(sorted)>> \o InsertIdx(Tail(sorted), i, keys, ties)

RECURSIVE SortPrefix(_, _, _)
SortPrefix(k, keys, ties) ==
    IF k = 0 THEN <<>>
    ELSE InsertIdx(SortPrefix(k - 1, keys, ties), k, keys, ties)

\* keys.argsort(): the indices of keys in ascending order of key
NpArgsort(keys, ties) == SortPrefix(Len(keys), keys, ties)

Reversed(s) == Array([k \in 1..Len(s) |-> s[Len(s) + 1 - k]])

\* pandas' indexer for sort_values(ascending=False): argsort the reversed
\* keys, map back to positions, reverse
SortValuesDescending(keys, ties) ==
    LET n == Len(keys)
        order == NpArgsort(Reversed(keys), ties)
    IN  Reversed([k \in 1..n |-> n + 1 - order[k]])

-----------------------------------------------------------------------------
(* The job recommender *)

TopK == 10

RECURSIVE NpMaxFrom(_, _)
NpMaxFrom(v, k) ==
    IF k = 1 THEN v[1]
    ELSE LET m == NpMaxFrom(v, k - 1) IN IF RLess(m, v[k]) THEN v[k] ELSE m

RECURSIVE NpMinFrom(_, _)
NpMinFrom(v, k) ==
    IF k = 1 THEN v[1]
    ELSE LET m == NpMinFrom(v, k - 1) IN IF RLess(v[k], m) THEN v[k] ELSE m

NpMax(v) == NpMaxFrom(v, Len(v))
NpMin(v) == NpMinFrom(v, Len(v))

\* lines 65-68, a mutant: each similarity divided by the maximum
RescaleByMax(similarity) ==
    LET hi == NpMax(similarity)
    IN  IF RLess(RZero, hi)
        THEN Array([j \in 1..Len(similarity) |->
                       RDiv(similarity[j], RAdd(hi, Eps))])
        ELSE similarity

\* lines 65-68, a mutant: a vector of equal values is left as it is
RescaleWhenSpread(similarity) ==
    LET hi == NpMax(similarity)
        lo == NpMin(similarity)
        width == RAdd(RSub(hi, lo), Eps)
    IN  IF RLess(lo, hi)
        THEN Array([j \in 1..Len(similarity) |->
                       RDiv(RSub(similarity[j], lo), width)])
        ELSE similarity

\* lines 65-68: min-max rescaling of one similarity vector
Rescale(similarity) ==
    LET hi == NpMax(similarity)
        lo == NpMin(similarity)
        width == RAdd(RSub(hi, lo), Eps)
    IN  IF RLess(RZero, hi)
        THEN Array([j \in 1..Len(similarity) |->
                       RDiv(RSub(similarity[j], lo), width)])
        ELSE similarity

\* line 70, a mutant: the better of the two similarities
CombinedSimilarityMax(skills_similarity, title_similarity) ==
    Array([j \in 1..Len(skills_similarity) |->
              PyMax(skills_similarity[j], title_similarity[j])])

\* line 70
CombinedSimilarity(skills_similarity, title_similarity) ==
    Array([j \in 1..Len(skills_similarity) |->
              RDiv(RAdd(skills_similarity[j], title_similarity[j]), RInt(2))])

\* line 71
ExperienceScores(rows, query_experience) ==
    Array([j \in 1..Len(rows) |->
              experience_similarity(query_experience, rows[j].ExperienceRange)])

\* FinalScores without the experience factor
FinalScoresLexicalOnly(combined_similarity, experience_scores) ==
    combined_similarity

\* line 72
FinalScores(combined_similarity, experience_scores) ==
    Array([j \in 1..Len(combined_similarity) |->
              RMul(combined_similarity[j], experience_scores[j])])

\* TopIndices with the slice one too long
TopIndicesOneMore(final_scores, ties) ==
    LET order == NpArgsort(Array([j \in 1..Len(final_scores) |->
                                     RNeg(final_scores[j])]), ties)
    IN  SubSeq(order, 1, IF Len(order) < TopK + 1 THEN Len(order) ELSE TopK + 1)

\* line 74: np.argsort(-final_scores)[:10]
TopIndices(final_scores, ties) ==
    LET order == NpArgsort(Array([j \in 1..Len(final_scores) |->
                                     RNeg(final_scores[j])]), ties)
    IN  SubSeq(order, 1, IF Len(order) < TopK THEN Len(order) ELSE TopK)

\* lines 78-82, a mutant: only the rows that score above 0 are copied
ScoredRowsAboveZero(rows, indices, skills, titles, experience, final) ==
    LET kept == SelectSeq(indices, LAMBDA j : RLess(RZero, final[j]))
    IN  Array([k \in 1..Len(kept) |->
            [row             |-> kept[k],
             job             |-> rows[kept[k]],
             SkillScore      |-> skills[kept[k]],
             TitleScore      |-> titles[kept[k]],
             ExperienceScore |-> experience[kept[k]],
             FinalScore      |-> final[kept[k]]]])

\* lines 78-82: the copied rows with their four score columns
ScoredRows(rows, indices, skills, titles, experience, final) ==
    Array([k \in 1..Len(indices) |->
        [row             |-> indices[k],
         job             |-> rows[indices[k]],
         SkillScore      |-> skills[indices[k]],
         TitleScore      |-> titles[indices[k]],
         ExperienceScore |-> experience[indices[k]],
         FinalScore      |-> final[indices[k]]]])

\* line 84, a mutant: ascending=True
SortByFinalScoreAscending(results, ties) ==
    LET order == Reversed(SortValuesDescending(
                              Array([k \in 1..Len(results) |-> results[k].FinalScore]),
                              ties))
    IN  [k \in 1..Len(results) |-> results[order[k]]]

\* line 84
SortByFinalScore(results, ties) ==
    LET order == SortValuesDescending(
                     Array([k \in 1..Len(results) |-> results[k].FinalScore]),
                     ties)
    IN  [k \in 1..Len(results) |-> results[order[k]]]

NoLocals == <<>>

Raised == [outcome |-> "raised", result |-> <<>>, locals |-> NoLocals]
Returned(list, sc) == [outcome |-> "returned", result |-> list, locals |-> sc]

\* lines 59-72: the score vectors of one query
Scores(rows, fit, query_skills, query_title, query_experience) ==
    LET query_skills_vec == Transform(fit.skills_vocabulary, query_skills)
        query_title_vec  == Transform(fit.title_vocabulary, query_title)
        skills_similarity ==
            Rescale(cosine_similarity_manual(query_skills_vec,
                                             fit.tfidf_skills))
        title_similarity ==
            Rescale(cosine_similarity_manual(query_title_vec,
                                             fit.tfidf_titles))
        experience_scores == ExperienceScores(rows, query_experience)
    IN  [skills_similarity |-> skills_similarity,
         title_similarity  |-> title_similarity,
         experience_scores |-> experience_scores,
         final_scores      |->
             FinalScores(CombinedSimilarity(skills_similarity,
                                            title_similarity),
                         experience_scores)]

\* a mutant of recommend_jobs: the rows are returned whatever the best score
recommend_jobs_unguarded(rows, fit, ties1, ties2, query_skills, query_title, query_experience) ==
    IF Len(rows) = 0 THEN Raised
    ELSE
    LET sc == Scores(rows, fit, query_skills, query_title, query_experience)
        indices == TopIndices(sc.final_scores, ties1)
    IN  Returned(SortByFinalScore(
                     ScoredRows(rows, indices, sc.skills_similarity,
                                sc.title_similarity, sc.experience_scores,
                                sc.final_scores),
                     ties2),
                 sc)

\* recommend_jobs against the module state (the rows, and in fit the two
\* fitted vocabularies and the two matrices); .max() of an empty array raises
recommend_jobs(rows, fit, ties1, ties2, query_skills, query_title, query_experience) ==
    IF Len(rows) = 0 THEN Raised
    ELSE
    LET sc == Scores(rows, fit, query_skills, query_title, query_experience)
        indices == TopIndices(sc.final_scores, ties1)
    IN  IF Len(indices) = 0 \/ REq(sc.final_scores[indices[1]], RZero)
        THEN Returned(<<>>, sc)
        ELSE Returned(SortByFinalScore(
                          ScoredRows(rows, indices, sc.skills_similarity,
                                     sc.title_similarity, sc.experience_scores,
                                     sc.final_scores),
                          ties2),
                      sc)

-----------------------------------------------------------------------------------------------------------------------------------------------------
(* Python values of the candidate ranker: None, strings, lists of strings,  *)
(* ints and floats                                                          *)

None == [type |-> "NoneType"]
Str(chars) == [type |-> "str", chars |-> chars]
List(items) == [type |-> "list", items |-> items]
PyInt(i) == [type |-> "int", int |-> i]
PyFloat(r) == [type |-> "float", float |-> r]

\* float("nan"): the value pandas gives an empty cell of the jobs CSV
\* (app.py lines 17-23)
NaN == [type |-> "float", nan |-> TRUE]

\* bool(x)
Truthy(x) ==
    CASE x.type = "NoneType" -> FALSE
      [] x.type = "str"      -> x.chars # <<>>
      [] x.type = "list"     -> x.items # <<>>
      [] x.type = "int"      -> x.int # 0
      [] x.type = "float"    -> "nan" \in DOMAIN x \/ ~REq(x.float, RZero)

\* a or b
Or(a, b) == IF Truthy(a) THEN a ELSE b

\* d.get(key) and d.get(key, default)
Get(d, key) == IF key \in DOMAIN d THEN d[key] ELSE None
GetOr(d, key, default) == IF key \in DOMAIN d THEN d[key] ELSE default

\* U+2013 and U+2014, each one character of a text
EnDash == "u2013"
EmDash == "u2014"

\* the characters of the texts, in code point order
Chars ==
    <<"\t", "\n", " ", "+", ",", "-", ".", "/",
      "0", "1", "2", "3", "4", "5", "6", "7", "8", "9", ";",
      "A", "B", "C", "D", "E", "F", "G", "H", "I", "J", "K", "L", "M",
      "N", "O", "P", "Q", "R", "S", "T", "U", "V", "W", "X", "Y", "Z",
      "a", "b", "c", "d", "e", "f", "g", "h", "i", "j", "k", "l", "m",
      "n", "o", "p", "q", "r", "s", "t", "u", "v", "w", "x", "y", "z",
      "|", EnDash, EmDash>>

Ord(ch) == CHOOSE k \in 1..Len(Chars) : Chars[k] = ch

Whitespace == {"\t", "\n", " "}

\* str.lower() of one character
LowerChar(ch) ==
    IF Ord("A") <= Ord(ch) /\ Ord(ch) <= Ord("Z")
    THEN Chars[Ord(ch) - Ord("A") + Ord("a")]
    ELSE ch

Lower(chars) == Array([k \in 1..Len(chars) |-> LowerChar(chars[k])])

RECURSIVE LStrip(_)
LStrip(chars) ==
    IF chars # <<>> /\ Head(chars) \in Whitespace THEN LStrip(Tail(chars))
    ELSE chars

RECURSIVE RStrip(_)
RStrip(chars) ==
    IF chars # <<>> /\ chars[Len(chars)] \in Whitespace
    THEN RStrip(SubSeq(chars, 1, Len(chars) - 1)) ELSE chars

Strip(chars) == RStrip(LStrip(chars))

\* a < b for strings, as sorted() compares them
RECURSIVE StrLess(_, _)
StrLess(a, b) ==
    IF b = <<>> THEN FALSE
    ELSE IF a = <<>> THEN TRUE
    ELSE IF Head(a) = Head(b) THEN StrLess(Tail(a), Tail(b))
    ELSE Ord(Head(a)) < Ord(Head(b))

\* sorted(set_of_strings)
RECURSIVE Sorted(_)
Sorted(strings) ==
    IF strings = {} THEN <<>>
    ELSE LET least == CHOOSE x \in strings :
                         \A y \in strings \ {x} : StrLess(x, y)
         IN  <<least>> \o Sorted(strings \ {least})

\* sep.join(items)
RECURSIVE Join(_, _)
Join(sep, items) ==
    IF items = <<>> THEN <<>>
    ELSE IF Len(items) = 1 THEN items[1]
    ELSE items[1] \o sep \o Join(sep, Tail(items))

RECURSIVE DecimalChars(_)
DecimalChars(n) ==
    LET digit == CHOOSE ch \in Digits : DigitVal(ch) = n % 10
    IN  IF n < 10 THEN <<digit>> ELSE Append(DecimalChars(n \div 10), digit)

\* str(x) of a string, an int or the float nan
PyStr(x) ==
    CASE x.type = "str" -> x.chars
      [] x.type = "float" /\ "nan" \in DOMAIN x -> <<"n", "a", "n">>
      [] x.type = "int" ->
            IF x.int < 0 THEN <<"-">> \o DecimalChars(-x.int) ELSE DecimalChars(x.int)

Separators == {",", ";", "/", "|"}

\* re.split(r"[,;/|]", chars); cur is the piece being read
RECURSIVE SplitOn(_, _, _)
SplitOn(chars, cur, acc) ==
    IF chars = <<>> THEN Append(acc, cur)
    ELSE IF Head(chars) \in Separators
         THEN SplitOn(Tail(chars), <<>>, Append(acc, cur))
         ELSE SplitOn(Tail(chars), Append(cur, Head(chars)), acc)

_split_skills(s) ==
    IF s.type = "NoneType" THEN {}
    ELSE LET parts == IF s.type = "list" THEN s.items
                      ELSE SplitOn(PyStr(s), <<>>, <<>>)
         IN  {Lower(Strip(parts[k])) :
                 k \in {i \in 1..Len(parts) :
                           parts[i] # <<>> /\ Strip(parts[i]) # <<>>}}

\* a mutant of _jaccard: the share of a that b covers
_jaccard_of_first(a, b) ==
    IF a = {} \/ b = {} THEN RZero
    ELSE RFrac(Cardinality(a \cap b), Cardinality(a))

_jaccard(a, b) ==
    IF a = {} \/ b = {} THEN RZero
    ELSE RFrac(Cardinality(a \cap b), Cardinality(a \cup b))

\* the index after the digits that start at index k
RECURSIVE DigitsEnd(_, _)
DigitsEnd(t, k) ==
    IF k <= Len(t) /\ t[k] \in Digits THEN DigitsEnd(t, k + 1) ELSE k

\* \d+(?:\.\d+)? at index k: the index after the match, k when none
NumberEnd(t, k) ==
    LET e == DigitsEnd(t, k)
    IN  IF e > k /\ e <= Len(t) /\ t[e] = "." /\ DigitsEnd(t, e + 1) > e + 1
        THEN DigitsEnd(t, e + 1)
        ELSE e

\* \s* at index k: the index after the match
RECURSIVE SpacesEnd(_, _)
SpacesEnd(t, k) ==
    IF k <= Len(t) /\ t[k] \in Whitespace THEN SpacesEnd(t, k + 1) ELSE k

\* the literal at index k: the index after the match, k when none
LiteralEnd(t, k, literal) ==
    IF k + Len(literal) - 1 <= Len(t)
       /\ SubSeq(t, k, k + Len(literal) - 1) = literal
    THEN k + Len(literal) ELSE k

RECURSIVE DigitsValue(_, _)
DigitsValue(digits, acc) ==
    IF digits = <<>> THEN acc
    ELSE DigitsValue(Tail(digits), acc * 10 + DigitVal(Head(digits)))

RECURSIVE Pow10(_)
Pow10(n) == IF n = 0 THEN 1 ELSE 10 * Pow10(n - 1)

\* float() of the text of a \d+(?:\.\d+)? match
NumberValue(digits) ==
    LET e == DigitsEnd(digits, 1)
    IN  IF e > Len(digits) THEN RInt(DigitsValue(digits, 0))
        ELSE RFrac(DigitsValue(SubSeq(digits, 1, e - 1)
                                  \o SubSeq(digits, e + 1, Len(digits)), 0),
                   Pow10(Len(digits) - e))

\* (\d+(?:\.\d+)?)\s*\+\s*year at index k
PlusYearsAt(t, k) ==
    LET e == NumberEnd(t, k)
        p == SpacesEnd(t, e)
        y == SpacesEnd(t, p + 1)
    IN  e > k /\ LiteralEnd(t, p, <<"+">>) > p
              /\ LiteralEnd(t, y, <<"y", "e", "a", "r">>) > y

RangeSeparators == {<<"-">>, <<"t", "o">>, <<EnDash>>, <<EmDash>>}

\* (\d+(?:\.\d+)?)\s*(?:-|to|U+2013|U+2014)\s*(\d+(?:\.\d+)?) at index k: the indexes
\* where the second number starts, none when there is no match
RangeAt(t, k) ==
    LET e == NumberEnd(t, k)
        p == SpacesEnd(t, e)
    IN  IF e = k THEN {}
        ELSE {b \in {SpacesEnd(t, LiteralEnd(t, p, sep)) :
                        sep \in {x \in RangeSeparators : LiteralEnd(t, p, x) > p}} :
                 NumberEnd(t, b) > b}

\* (\d+(?:\.\d+)?)\s*year at index k
YearsAt(t, k) ==
    LET e == NumberEnd(t, k)
        y == SpacesEnd(t, e)
    IN  e > k /\ LiteralEnd(t, y, <<"y", "e", "a", "r">>) > y

Least(S) == CHOOSE k \in S : \A j \in S : k <= j

\* float(m.group(...)) of the number matched at index k
NumberAt(t, k) == NumberValue(SubSeq(t, k, NumberEnd(t, k) - 1))

Window(a, b) == <<a, b>>

\* lines 112-114
OrderedWindow(a, b) == IF RLess(b, a) THEN Window(b, a) ELSE Window(a, b)

\* a mutant of lines 107-118: the range rule tried before the plus rule
SearchWindowRangeFirst(t, plus, range, years) ==
    IF range # {}
    THEN OrderedWindow(NumberAt(t, Least(range)),
                       NumberAt(t, Least(RangeAt(t, Least(range)))))
    ELSE IF plus # {} THEN Window(NumberAt(t, Least(plus)),
                                  RAdd(NumberAt(t, Least(plus)), RInt(20)))
    ELSE IF years # {}
    THEN Window(NumberAt(t, Least(years)), NumberAt(t, Least(years)))
    ELSE Window(RZero, RInt(50))

\* lines 107-118: plus, range and years are the indexes where the three
\* patterns match in t; re.search takes the leftmost
SearchWindow(t, plus, range, years) ==
    IF plus # {} THEN Window(NumberAt(t, Least(plus)),
                             RAdd(NumberAt(t, Least(plus)), RInt(20)))
    ELSE IF range # {}
    THEN OrderedWindow(NumberAt(t, Least(range)),
                       NumberAt(t, Least(RangeAt(t, Least(range)))))
    ELSE IF years # {}
    THEN Window(NumberAt(t, Least(years)), NumberAt(t, Least(years)))
    ELSE Window(RZero, RInt(50))

\* lines 105-118 for the lowercased and stripped text t
WindowOfText(t) ==
    IF t \in {<<"f", "r", "e", "s", "h", "e", "r">>,
              <<"f", "r", "e", "s", "h", "e", "r", "s">>}
    THEN Window(RZero, RFrac(1, 2))
    ELSE SearchWindow(t, {k \in 1..Len(t) : PlusYearsAt(t, k)},
                         {k \in 1..Len(t) : RangeAt(t, k) # {}},
                         {k \in 1..Len(t) : YearsAt(t, k)})

_parse_experience_window(text) ==
    WindowOfText(Strip(Lower(Or(text, Str(<<>>)).chars)))

NotAFloat == [ok |-> FALSE]

\* the decimal literal of the given digits, the last `places` of them after
\* the point
Decimal(digits, places) ==
    IF digits # <<>> /\ DigitsEnd(digits, 1) > Len(digits)
    THEN [ok |-> TRUE, v |-> RFrac(DigitsValue(digits, 0), Pow10(places))]
    ELSE NotAFloat

\* an unsigned literal whose leading digits end before index dot
DecimalAt(body, dot) ==
    IF dot > Len(body) THEN Decimal(body, 0)
    ELSE IF body[dot] = "."
    THEN Decimal(SubSeq(body, 1, dot - 1) \o SubSeq(body, dot + 1, Len(body)),
                 Len(body) - dot)
    ELSE NotAFloat

Negated(f) == IF f.ok THEN [ok |-> TRUE, v |-> RNeg(f.v)] ELSE f

SignedDecimal(t) ==
    IF t # <<>> /\ Head(t) = "-" THEN Negated(DecimalAt(Tail(t), DigitsEnd(Tail(t), 1)))
    ELSE IF t # <<>> /\ Head(t) = "+" THEN DecimalAt(Tail(t), DigitsEnd(Tail(t), 1))
    ELSE DecimalAt(t, DigitsEnd(t, 1))

\* float(x): the value, or ok = FALSE where float() raises; a text is read
\* as an optionally signed decimal literal or as "nan" in any case
NotANumber == [ok |-> TRUE, nan |-> TRUE]

IsNaN(f) == "nan" \in DOMAIN f

Unsigned(t) == IF t # <<>> /\ Head(t) \in {"+", "-"} THEN Tail(t) ELSE t

FloatOfText(chars) ==
    IF Lower(Unsigned(Strip(chars))) = <<"n", "a", "n">> THEN NotANumber
    ELSE SignedDecimal(Strip(chars))

ToFloat(x) ==
    CASE x.type = "int"   -> [ok |-> TRUE, v |-> RInt(x.int)]
      [] x.type = "float" -> IF IsNaN(x) THEN NotANumber
                             ELSE [ok |-> TRUE, v |-> x.float]
      [] x.type = "str"   -> FloatOfText(x.chars)
      [] OTHER            -> NotAFloat

\* lines 121-124
FloatOrZero(f) == IF f.ok THEN f.v ELSE RZero

\* lines 125-129
FitInWindow(q, a, b) ==
    IF RLeq(a, q) /\ RLeq(q, b) THEN ROne
    ELSE PyMax(RZero,
               RDiv(ROne, RAdd(ROne, RDiv(IF RLess(q, a) THEN RSub(a, q)
                                          ELSE RSub(q, b),
                                          RInt(2)))))

\* lines 125-129 for q = nan: every comparison with q is false, dist is nan
\* and max(0.0, nan) is its first argument
FitOfFloat(f, a, b) ==
    IF IsNaN(f) THEN RZero ELSE FitInWindow(FloatOrZero(f), a, b)

_experience_fit(experience_years, window) ==
    FitOfFloat(ToFloat(Or(experience_years, PyFloat(RZero))),
               window[1], window[2])

\* line 153, a mutant: the three scores multiplied as the recommender does
MatchScoreMultiplicative(s_skills, s_title, s_exp) ==
    RMul(RMul(RFrac(1, 2), RAdd(s_skills, s_title)), s_exp)

\* line 153
MatchScore(s_skills, s_title, s_exp) ==
    RAdd(RAdd(RMul(RFrac(5, 10), s_skills), RMul(RFrac(3, 10), s_title)),
         RMul(RFrac(2, 10), s_exp))

\* lines 155-164: the candidate's dict with the three keys set
Annotated(c, cand_skill_set, years, score) ==
    [k \in DOMAIN c \cup {"match_score", "experience_years", "skills_text"} |->
        CASE k = "match_score" -> PyFloat(score)
          [] k = "experience_years" ->
                IF ~years.ok THEN PyInt(0)
                ELSE IF IsNaN(years) THEN NaN ELSE PyFloat(years.v)
          [] k = "skills_text" /\ k \notin DOMAIN c ->
                Str(Join(<<",", " ">>, Sorted(cand_skill_set)))
          [] OTHER -> c[k]]

\* lines 153-165, a mutant: the three keys are set on the caller's dict, as
\* if line 155 were cc = c
ScoredInPlace(c, cand_skill_set, exp_years, s_skills, s_title, s_exp) ==
    [cc |-> Annotated(c, cand_skill_set, ToFloat(exp_years),
                      MatchScore(s_skills, s_title, s_exp)),
     c  |-> Annotated(c, cand_skill_set, ToFloat(exp_years),
                      MatchScore(s_skills, s_title, s_exp)),
     s_skills |-> s_skills, s_title |-> s_title, s_exp |-> s_exp]

\* lines 153-165: cc is the copy of line 155 with its keys set, c the
\* caller's dict after the loop body, which writes to cc alone
Scored(c, cand_skill_set, exp_years, s_skills, s_title, s_exp) ==
    [cc |-> Annotated(c, cand_skill_set, ToFloat(exp_years),
                      MatchScore(s_skills, s_title, s_exp)),
     c  |-> c,
     s_skills |-> s_skills, s_title |-> s_title, s_exp |-> s_exp]

\* lines 149-151
ScoreSets(c, cand_skill_set, cand_title_set, exp_years, job_skill_set, job_title_set, exp_window) ==
    Scored(c, cand_skill_set, exp_years,
           _jaccard(job_skill_set, cand_skill_set),
           _jaccard(job_title_set, cand_title_set),
           _experience_fit(exp_years, exp_window))

\* lines 141-147
ScoreSources(c, cand_skills, job_skill_set, job_title_set, exp_window) ==
    ScoreSets(c, _split_skills(cand_skills),
              _split_skills(Or(Or(Or(Get(c, "headline"), Get(c, "desired_title")),
                                  Get(c, "title")), cand_skills)),
              GetOr(c, "experience_years", GetOr(c, "experience", PyInt(0))),
              job_skill_set, job_title_set, exp_window)

\* lines 140-165: one candidate scored against the job
ScoreCandidate(c, job_skill_set, job_title_set, exp_window) ==
    ScoreSources(c, Or(Or(Get(c, "skills"), Get(c, "skills_text")), Str(<<>>)),
                 job_skill_set, job_title_set, exp_window)

\* line 167, a mutant: sorted ascending and then reversed
ListSortReverseThenFlip(keys) == Reversed(NpArgsort(keys, "stable"))

\* line 167, a mutant: sorted without reverse=True
ListSortAscending(keys) == NpArgsort(keys, "stable")

\* list.sort(key=..., reverse=True): the positions of keys in descending
\* order; the list is reversed, sorted stably ascending and reversed again
ListSortReverse(keys) ==
    LET n == Len(keys)
        order == NpArgsort(Reversed(keys), "stable")
    IN  Reversed([k \in 1..n |-> n + 1 - order[k]])

\* list[:top_n] for top_n >= 0
Slice(list, top_n) ==
    SubSeq(list, 1, IF top_n < Len(list) THEN top_n ELSE Len(list))

\* lines 138-165
ScoreAll(candidates, job_skill_set, job_title_set, exp_window) ==
    Array([k \in 1..Len(candidates) |->
             ScoreCandidate(candidates[k], job_skill_set, job_title_set, exp_window)])

MatchScores(each) == Array([k \in 1..Len(each) |-> each[k].cc["match_score"].float])

InOrder(each, order) == Array([k \in 1..Len(order) |-> each[order[k]].cc])

\* lines 167-168
SortAndSlice(each, top_n) ==
    Returned(Slice(InOrder(each, ListSortReverse(MatchScores(each))), top_n), each)

\* rank_candidates_for_job; .lower() of a job experience that is neither
\* empty nor text raises
rank_candidates_for_job(job_skills, job_title, job_experience_text, candidates, top_n) ==
    IF Or(job_experience_text, Str(<<>>)).type # "str" THEN Raised
    ELSE SortAndSlice(ScoreAll(candidates, _split_skills(job_skills),
                               _split_skills(job_title),
                               _parse_experience_window(job_experience_text)),
                      top_n)

-----
(* Module state at import (lines 46-55) *)

\* line 48: the "Experience Range" column
WithExperienceRange(csv) ==
    [j \in 1..Len(csv) |->
        [JobTitle        |-> csv[j].JobTitle,
         KeySkills       |-> csv[j].KeySkills,
         JobExperience   |-> csv[j].JobExperience,
         ExperienceRange |-> clean_experience(csv[j].JobExperience)]]

Column(rows, name) == [j \in 1..Len(rows) |-> rows[j][name]]

SkillsVocabulary(rows) == FitVocabulary(Column(rows, "KeySkills"))
TitleVocabulary(rows)  == FitVocabulary(Column(rows, "JobTitle"))

\* lines 54-55: fit_transform raises ValueError on an empty vocabulary
FitSucceeds(rows) == SkillsVocabulary(rows) # {} /\ TitleVocabulary(rows) # {}

TfidfSkills(rows) ==
    LET vocabulary == SkillsVocabulary(rows)
    IN  Array([j \in 1..Len(rows) |-> Transform(vocabulary, rows[j].KeySkills)])
TfidfTitles(rows) ==
    LET vocabulary == TitleVocabulary(rows)
    IN  Array([j \in 1..Len(rows) |-> Transform(vocabulary, rows[j].JobTitle)])

-----------------------------------------------------------------------------------------------------------------------------------------------------
(* The inputs of the model *)

MaxRows == 3
Fill == 5
MaxYears == 6

Row(t, k, e) == [JobTitle |-> t, KeySkills |-> k, JobExperience |-> e]

\* four rows of jobs_info.csv: three skill texts, two titles, and an
\* experience text whose first number is above its last
CsvRows ==
    {Row(<<"python">>, <<"python">>,        <<"2", "-", "5">>),
     Row(<<"sql">>,    <<"python", "sql">>, <<"5", "-", "2">>),
     Row(<<"python">>, <<"sql">>,           <<"2", "-", "5">>),
     Row(<<"sql">>,    <<"python">>,        <<"5", "-", "2">>)}

Repeat(x, n) == [k \in 1..n |-> x]

SeqsUpTo(S, n) == UNION {[1..m -> S] : m \in 0..n}

\* every table of at most MaxRows rows, and the long tables: Fill copies of
\* one row, at most one other row, Fill more copies of the first
Corpora ==
    SeqsUpTo(CsvRows, MaxRows)
    \cup {Repeat(f, Fill) \o mid \o Repeat(f, Fill) :
            f \in CsvRows, mid \in SeqsUpTo(CsvRows, 1)}

QuerySkills == {<<"python">>, <<"sql", "python">>, <<"cobol">>}
QueryTitles == {<<"python">>, <<"3d">>}
QueryYears == {-1, 0, 3, MaxYears}

MaxCandidates == 3
MaxTop == 2

\* the job fields job_details passes: texts, None, and the nan of an empty
\* cell of the jobs CSV
JobSkills == {Str(<<"P", "y", "t", "h", "o", "n", ",", " ", "S", "Q", "L">>), Str(<<"j", "a", "v", "a">>)}
JobTitles == {Str(<<"D", "e", "v">>), Str(<<"p", "y", "t", "h", "o", "n">>)}
JobExperiences == {Str(<<"2", "-", "4", " ", "y", "e", "a", "r", "s">>), Str(<<"5", "+", " ", "y", "e", "a", "r", "s">>), None, NaN}

\* four userinfo documents; the first two differ in the username only and
\* hold a headline as well as a title
Candidates ==
    {[username |-> Str(<<"a">>), skills |-> Str(<<"p", "y", "t", "h", "o", "n", ",", " ", "s", "q", "l">>), headline |-> Str(<<"d", "e", "v">>),
      title |-> Str(<<"p", "y", "t", "h", "o", "n">>), experience_years |-> PyInt(3)],
     [username |-> Str(<<"b">>), skills |-> Str(<<"p", "y", "t", "h", "o", "n", ",", " ", "s", "q", "l">>), headline |-> Str(<<"d", "e", "v">>),
      title |-> Str(<<"p", "y", "t", "h", "o", "n">>), experience_years |-> PyInt(3)],
     [skills |-> List(<<<<"S", "Q", "L">>>>), title |-> Str(<<"p", "y", "t", "h", "o", "n">>), experience |-> Str(<<"5">>)],
     [skills_text |-> Str(<<"j", "a", "v", "a">>), desired_title |-> Str(<<"p", "y">>),
      experience_years |-> Str(<<"a", "b", "c">>)]}

CandidateLists == SeqsUpTo(Candidates, MaxCandidates)

\* raw experience texts of jobs and the years of a query
DetRows == 2

ExperienceTexts ==
    {<<"2", " ", "-", " ", "5", " ", "y", "r", "s">>, <<"5", " ", "-", " ", "2", " ", "y", "r", "s">>, <<"0", "-", "3">>, <<"3", " ", "y", "r", "s">>, <<"F", "r", "e", "s", "h", "e", "r">>}
Years == -2..MaxYears


-----------------------------------------------------------------------------
(* The job recommender as a state machine *)

NoCall == [name |-> "none"]
NoPrevious == [call |-> NoCall, outcome |-> "none", result |-> <<>>]

\* the requests served at the same time: none but in the last part
NoThreads == <<>>

\* app.py is not running: no jobs file is served, no user, no cache
NoCache == [type |-> "NoneType"]
AppNotStarted ==
    /\ JOBS_FILE = [rows |-> <<>>, mtime |-> 0]
    /\ userinfo_collection = [type |-> "NoneType"]
    /\ recommendations_collection = NoCache

Init ==
    /\ \E csv \in Corpora : data = WithExperienceRange(csv)
    /\ loaded = FitSucceeds(data)
    /\ argsortTies \in TieOrders
    /\ sortValuesTies \in TieOrders
    /\ call = NoCall
    /\ outcome = "none"
    /\ result = <<>>
    /\ locals = NoLocals
    /\ previous = NoPrevious
    /\ threads = NoThreads
    /\ AppNotStarted

\* what recommend_jobs reads of the module: lines 46-55
Fitted(rows) ==
    [skills_vocabulary |-> SkillsVocabulary(rows),
     title_vocabulary  |-> TitleVocabulary(rows),
     tfidf_skills      |-> TfidfSkills(rows),
     tfidf_titles      |-> TfidfTitles(rows)]

\* a caller imports recommend_jobs and calls it (app.py lines 8 and 308);
\* the import raises when the fit at import raised
RecommendCall(fit, s, t, y) ==
    IF loaded
    THEN recommend_jobs(data, fit, argsortTies, sortValuesTies, s, t, y)
    ELSE Raised

\* a mutant: the call leaves the module's table in the order of its scores
RecommendSortingInPlace(skills, titles, years) ==
    /\ outcome = "none"
    /\ \E fit \in {Fitted(data)} :
       \E s \in skills, t \in titles, y \in years :
       \E r \in {RecommendCall(fit, s, t, y)} :
            /\ call' = [name |-> "recommend_jobs", skills |-> s, title |-> t,
                        experience |-> y]
            /\ outcome' = r.outcome
            /\ result' = r.result
            /\ locals' = r.locals
            /\ data' = IF r.outcome = "returned"
                       THEN LET order == SortValuesDescending(r.locals.final_scores,
                                                              sortValuesTies)
                            IN  Array([k \in 1..Len(data) |-> data[order[k]]])
                       ELSE data
            /\ UNCHANGED <<loaded, argsortTies, sortValuesTies, previous, threads, appVars>>

\* one call of recommend_jobs with a query drawn from the given sets
RecommendWith(skills, titles, years) ==
    /\ outcome = "none"
    /\ \E fit \in {Fitted(data)} :
       \E s \in skills, t \in titles, y \in years :
       \E r \in {RecommendCall(fit, s, t, y)} :
            /\ call' = [name |-> "recommend_jobs", skills |-> s, title |-> t,
                        experience |-> y]
            /\ outcome' = r.outcome
            /\ result' = r.result
            /\ locals' = r.locals
            /\ UNCHANGED <<data, loaded, argsortTies, sortValuesTies, previous, threads, appVars>>

Recommend == RecommendWith(QuerySkills, QueryTitles, QueryYears)

\* the caller has taken the result; the module is as it was
Return ==
    /\ outcome # "none"
    /\ call' = NoCall
    /\ outcome' = "none"
    /\ result' = <<>>
    /\ locals' = NoLocals
    /\ UNCHANGED <<data, loaded, argsortTies, sortValuesTies, previous, threads, appVars>>

Next == Recommend \/ Return

Spec == Init /\ [][Next]_vars

-----------------------------------------------------------------------------
(* The candidate ranker called for a job: app.py lines 547-561 *)

SampleCorpus == <<Row(<<"python">>, <<"python">>, <<"2", "-", "5">>)>>

InitSample ==
    /\ data = WithExperienceRange(SampleCorpus)
    /\ loaded = FitSucceeds(data)
    /\ argsortTies = "stable"
    /\ sortValuesTies = "stable"
    /\ call = NoCall
    /\ outcome = "none"
    /\ result = <<>>
    /\ locals = NoLocals
    /\ previous = NoPrevious
    /\ threads = NoThreads
    /\ AppNotStarted

\* one call of rank_candidates_for_job with arguments drawn from the given
\* sets
RankWith(skills, titles, experiences, lists, tops) ==
    /\ outcome = "none"
    /\ \E s \in skills, t \in titles, e \in experiences, cs \in lists, n \in tops :
       \E r \in {rank_candidates_for_job(s, t, e, cs, n)} :
            /\ call' = [name |-> "rank_candidates_for_job", job_skills |-> s,
                        job_title |-> t, job_experience_text |-> e,
                        candidates |-> cs, top_n |-> n]
            /\ outcome' = r.outcome
            /\ result' = r.result
            /\ locals' = r.locals
            /\ UNCHANGED <<data, loaded, argsortTies, sortValuesTies, previous, threads, appVars>>

Rank == RankWith(JobSkills, JobTitles, JobExperiences, CandidateLists, 0..MaxTop)

\* the job and the two candidates of a posting for a data analyst
AnalystJob ==
    [job_skills |-> Str(<<"p", "y", "t", "h", "o", "n", ",", " ", "s", "q", "l">>),
     job_title |-> Str(<<"d", "a", "t", "a", " ", "a", "n", "a", "l", "y", "s", "t">>),
     job_experience_text |-> Str(<<"2", "-", "4", " ", "y", "e", "a", "r", "s">>)]

AnalystWithExcel ==
    [skills |-> Str(<<"p", "y", "t", "h", "o", "n", ",", " ", "s", "q", "l", ",", " ", "e", "x", "c", "e", "l">>),
     experience |-> PyInt(3)]

JavaDeveloper == [skills |-> Str(<<"j", "a", "v", "a">>), experience |-> PyInt(10)]

RankAnalysts ==
    RankWith({AnalystJob.job_skills}, {AnalystJob.job_title},
             {AnalystJob.job_experience_text},
             SeqsUpTo({AnalystWithExcel, JavaDeveloper}, MaxCandidates), 0..MaxTop)

NextRank == Rank \/ RankAnalysts \/ Return

SpecRank == InitSample /\ [][NextRank]_vars

-----------------------------------------------------------------------------
(* Calls repeated against one module: the caller keeps the result of the    *)
(* call before                                                              *)

ReturnRemembered ==
    /\ outcome # "none"
    /\ previous' = [call |-> call, outcome |-> outcome, result |-> result]
    /\ call' = NoCall
    /\ outcome' = "none"
    /\ result' = <<>>
    /\ locals' = NoLocals
    /\ UNCHANGED <<data, loaded, argsortTies, sortValuesTies, threads, appVars>>

\* the empty table, and up to DetRows copies of one row before another row
DetCorpora ==
    {<<>>} \cup {Repeat(f, n) \o <<g>> : f \in CsvRows, g \in CsvRows, n \in 0..DetRows}

InitDet ==
    /\ \E csv \in DetCorpora : data = WithExperienceRange(csv)
    /\ loaded = FitSucceeds(data)
    /\ argsortTies \in TieOrders
    /\ sortValuesTies \in TieOrders
    /\ call = NoCall
    /\ outcome = "none"
    /\ result = <<>>
    /\ locals = NoLocals
    /\ previous = NoPrevious
    /\ threads = NoThreads
    /\ AppNotStarted

DetRecommend == RecommendWith({<<"python">>}, QueryTitles, {0, 3})

DetCandidateLists ==
    {cs \in SeqsUpTo(Candidates, 2) :
        /\ Len(cs) = 2
        /\ cs[1] # cs[2]
        /\ \A k \in 1..2 : "username" \in DOMAIN cs[k]}

DetRank == RankWith({Str(<<"P", "y", "t", "h", "o", "n", ",", " ", "S", "Q", "L">>)}, {Str(<<"p", "y", "t", "h", "o", "n">>)}, {Str(<<"2", "-", "4", " ", "y", "e", "a", "r", "s">>)}, DetCandidateLists, {1})

NextDet == DetRecommend \/ DetRank \/ ReturnRemembered

SpecDet == InitDet /\ [][NextDet]_vars

-----------------------------------------------------------------------------
(* The experience score of one job row for one query: lines 48 and 71 *)

ExperienceSimilarity ==
    /\ outcome = "none"
    /\ \E text \in ExperienceTexts, y \in Years :
            /\ call' = [name |-> "experience_similarity", candidate_exp |-> y,
                        job_exp_range |-> clean_experience(text)]
            /\ outcome' = "returned"
            /\ result' = experience_similarity(y, clean_experience(text))
            /\ locals' = NoLocals
            /\ UNCHANGED <<data, loaded, argsortTies, sortValuesTies, previous, threads, appVars>>

NextExp == ExperienceSimilarity \/ ReturnRemembered

SpecExp == InitSample /\ [][NextExp]_vars

-----------------------------------------------------------------------------
(* The parsers of experience called on one text: lines 15-17, 103-118 and   *)
(* 120-129                                                                  *)

MaxTokens == 3

\* the pieces that experience texts are written with
ParseTokens ==
    {<<"2">>, <<"5">>, <<"1", "0">>, <<"4", ".", "5">>, <<"+">>, <<"-">>,
     <<" ">>, <<"t", "o">>, <<"y", "e", "a", "r", "s">>, <<"y", "r", "s">>,
     <<EnDash>>}

\* the texts of the corpus and of job postings that the rules tell apart
SampleTexts ==
    {<<"2", " ", "-", " ", "5", " ", "y", "r", "s">>,
     <<"F", "r", "e", "s", "h", "e", "r">>,
     <<"5", "+", " ", "y", "e", "a", "r", "s">>,
     <<"2", "-", "4", " ", "y", "e", "a", "r", "s">>,
     <<"f", "r", "e", "s", "h", "e", "r">>, <<>>,
     <<"F", "r", "e", "s", "h", "e", "r", "s">>,
     <<" ", " ", "F", "R", "E", "S", "H", "E", "R", " ">>,
     <<"f", "r", "e", "s", "h", "e", "r", " ", "2", " ", "y", "e", "a", "r", "s">>,
     <<"1", "-", "2", " ", "y", "e", "a", "r", "s">>,
     <<"3", "+", " ", "y", "e", "a", "r", "s", " ", "1", "-", "2">>,
     <<"2", " ", "y", "e", "a", "r", "s", " ", "3", "+", " ", "y", "e", "a", "r", "s">>,
     <<"5", " ", "-", " ", "2", " ", "y", "r", "s">>,
     <<"4", " ", "t", "o", " ", "2">>, <<"2", " ", EnDash, " ", "4">>,
     <<"2", EmDash, "4">>, <<"3", " ", "y", "e", "a", "r", "s">>,
     <<"5", "+", " ", "y", "r", "s">>,
     <<"7", " ", "+", " ", "Y", "e", "a", "r", "s">>,
     <<"0", ".", "5", " ", "y", "e", "a", "r">>,
     <<"n", "o", " ", "l", "i", "m", "i", "t">>,
     <<"1", "0", "-", "1", "2", " ", "y", "e", "a", "r", "s", " ", "3", "+", " ", "y", "r", "s">>,
     <<"2", " ", "y", "e", "a", "r", "s", " ", "3", "+", " ", "y", "e", "a", "r", "s", " ", "4", "-", "5">>}

RECURSIVE Concat(_)
Concat(pieces) ==
    IF pieces = <<>> THEN <<>> ELSE Head(pieces) \o Concat(Tail(pieces))

ParseTexts ==
    SampleTexts \cup {Concat(pieces) : pieces \in SeqsUpTo(ParseTokens, MaxTokens)}

\* the values a caller passes for the experience text of a job
TextValues == {Str(t) : t \in ParseTexts} \cup {None, NaN, PyInt(3)}

\* the values a candidate record holds for its years of experience
ExperienceValues ==
    {None, PyInt(-1), PyInt(0), PyInt(3), PyInt(30), PyFloat(RFrac(5, 2)),
     PyFloat(RZero), Str(<<"4">>), Str(<<" ", "4", ".", "5", " ">>), Str(<<"-", "2">>), Str(<<"a", "b", "c">>),
     Str(<<"7", " ", "y", "e", "a", "r", "s">>), Str(<<>>), List(<<>>), List(<<PyInt(3)>>),
     Str(<<"n", "a", "n">>), NaN}

\* line 105 raises AttributeError when `text or ""` is not a str
ParseWindowCall(text) ==
    IF Or(text, Str(<<>>)).type # "str" THEN Raised
    ELSE Returned(_parse_experience_window(text), NoLocals)

FitWindows == {_parse_experience_window(Str(t)) : t \in SampleTexts}

CleanExperience ==
    /\ outcome = "none"
    /\ \E text \in ParseTexts :
            /\ call' = [name |-> "clean_experience", experience |-> text]
            /\ outcome' = "returned"
            /\ result' = clean_experience(text)
            /\ locals' = NoLocals
            /\ UNCHANGED <<data, loaded, argsortTies, sortValuesTies, previous, threads, appVars>>

ParseExperienceWindow ==
    /\ outcome = "none"
    /\ \E text \in TextValues :
       \E r \in {ParseWindowCall(text)} :
            /\ call' = [name |-> "_parse_experience_window", text |-> text]
            /\ outcome' = r.outcome
            /\ result' = r.result
            /\ locals' = NoLocals
            /\ UNCHANGED <<data, loaded, argsortTies, sortValuesTies, previous, threads, appVars>>

ExperienceFit ==
    /\ outcome = "none"
    /\ \E experience_years \in ExperienceValues, window \in FitWindows :
            /\ call' = [name |-> "_experience_fit",
                        experience_years |-> experience_years,
                        window |-> window]
            /\ outcome' = "returned"
            /\ result' = _experience_fit(experience_years, window)
            /\ locals' = NoLocals
            /\ UNCHANGED <<data, loaded, argsortTies, sortValuesTies, previous, threads, appVars>>

\* the pieces that skill texts are written with
SkillTokens == {<<"p", "y">>, <<"S", "Q", "L">>, <<" ">>, <<",">>, <<";">>, <<"/">>, <<"|">>}

\* the values passed for skills and titles: texts, None, lists of names
SkillValues ==
    {Str(Concat(pieces)) : pieces \in SeqsUpTo(SkillTokens, MaxTokens)}
        \cup {None, List(<<>>), List(<<<<" ", "P", "y", " ">>, <<"s", "q", "l", "/", "r">>, <<>>>>),
              Str(<<"P", "y", "t", "h", "o", "n", ",", " ", "S", "Q", "L", " ", ";", ";", " ", "j", "a", "v", "a", "|", "c", " ", "/", " ", "R">>), PyInt(3)}

\* the token sets compared: the sets of three names
SkillSets == SUBSET {<<"p", "y", "t", "h", "o", "n">>, <<"s", "q", "l">>, <<"j", "a", "v", "a">>}

SplitSkills ==
    /\ outcome = "none"
    /\ \E s \in SkillValues :
            /\ call' = [name |-> "_split_skills", s |-> s]
            /\ outcome' = "returned"
            /\ result' = _split_skills(s)
            /\ locals' = NoLocals
            /\ UNCHANGED <<data, loaded, argsortTies, sortValuesTies, previous, threads, appVars>>

Jaccard ==
    /\ outcome = "none"
    /\ \E a \in SkillSets, b \in SkillSets :
            /\ call' = [name |-> "_jaccard", a |-> a, b |-> b]
            /\ outcome' = "returned"
            /\ result' = _jaccard(a, b)
            /\ locals' = NoLocals
            /\ UNCHANGED <<data, loaded, argsortTies, sortValuesTies, previous, threads, appVars>>

NextParse ==
    \/ CleanExperience \/ ParseExperienceWindow \/ ExperienceFit
    \/ SplitSkills \/ Jaccard \/ Return

SpecParse == InitSample /\ [][NextParse]_vars

-----------------------------------------------------------------------------
(* Requests served at the same time.  Each request runs one call in its own *)
(* thread; a thread's frame is its own, the table and the fitted state are  *)
(* the module's.  recommend_jobs reads the fitted state and the Experience  *)
(* Range column on lines 59-75 and the rows of the table on lines 78-84.    *)

Threads == {"t1", "t2"}

Idle == [pc |-> "idle"]

\* the tables of two rows
ConcCorpora == {<<f, g>> : f \in CsvRows, g \in CsvRows}

ConcSkills == {<<"python">>, <<"sql", "python">>}
ConcTitles == {<<"python">>}
ConcYears == {0, 3}

InitConc ==
    /\ \E csv \in ConcCorpora : data = WithExperienceRange(csv)
    /\ loaded = FitSucceeds(data)
    /\ argsortTies \in TieOrders
    /\ sortValuesTies \in TieOrders
    /\ call = NoCall
    /\ outcome = "none"
    /\ result = <<>>
    /\ locals = NoLocals
    /\ previous = NoPrevious
    /\ threads = [t \in Threads |-> Idle]
    /\ AppNotStarted

\* lines 59-75: the score vectors and the indices of the best rows
ScoreFrame(sc, ties1) == [sc |-> sc, indices |-> TopIndices(sc.final_scores, ties1)]

\* lines 75-84 for a frame: the guard, the copied rows, the sort
BuildRows(rows, frame, ties2) ==
    IF Len(frame.indices) = 0
       \/ REq(frame.sc.final_scores[frame.indices[1]], RZero)
    THEN <<>>
    ELSE SortByFinalScore(ScoredRows(rows, frame.indices,
                                     frame.sc.skills_similarity,
                                     frame.sc.title_similarity,
                                     frame.sc.experience_scores,
                                     frame.sc.final_scores),
                          ties2)

\* a thread enters recommend_jobs and runs lines 59-75
ConcScore(t) ==
    /\ threads[t].pc = "idle"
    /\ \E s \in ConcSkills, ti \in ConcTitles, y \in ConcYears :
         threads' = [threads EXCEPT ![t] =
            IF loaded /\ Len(data) > 0
            THEN [pc |-> "scored",
                  call |-> [name |-> "recommend_jobs", skills |-> s,
                            title |-> ti, experience |-> y],
                  frame |-> ScoreFrame(Scores(data, Fitted(data), s, ti, y),
                                       argsortTies)]
            ELSE [pc |-> "raised",
                  call |-> [name |-> "recommend_jobs", skills |-> s,
                            title |-> ti, experience |-> y]]]
    /\ UNCHANGED <<data, loaded, argsortTies, sortValuesTies, call, outcome,
                   result, locals, previous, appVars>>

\* a mutant of ConcBuild: the thread sorts the module's table by its scores
ConcBuildSortingInPlace(t) ==
    /\ threads[t].pc = "scored"
    /\ threads' = [threads EXCEPT ![t] =
            [pc     |-> "returned",
             call   |-> threads[t].call,
             result |-> BuildRows(data, threads[t].frame, sortValuesTies)]]
    /\ data' = LET order == SortValuesDescending(threads[t].frame.sc.final_scores,
                                                 sortValuesTies)
               IN  Array([k \in 1..Len(data) |-> data[order[k]]])
    /\ UNCHANGED <<loaded, argsortTies, sortValuesTies, call, outcome,
                   result, locals, previous, appVars>>

\* the thread runs lines 75-84 and returns
ConcBuild(t) ==
    /\ threads[t].pc = "scored"
    /\ threads' = [threads EXCEPT ![t] =
            [pc     |-> "returned",
             call   |-> threads[t].call,
             result |-> BuildRows(data, threads[t].frame, sortValuesTies)]]
    /\ UNCHANGED <<data, loaded, argsortTies, sortValuesTies, call, outcome,
                   result, locals, previous, appVars>>

\* a thread runs rank_candidates_for_job, which reads its arguments only
ConcRank(t) ==
    /\ threads[t].pc = "idle"
    /\ \E cs \in DetCandidateLists, e \in {AnalystJob.job_experience_text} :
       \E r \in {rank_candidates_for_job(AnalystJob.job_skills,
                                         AnalystJob.job_title, e, cs, 1)} :
         threads' = [threads EXCEPT ![t] =
            [pc     |-> r.outcome,
             call   |-> [name |-> "rank_candidates_for_job",
                         job_skills |-> AnalystJob.job_skills,
                         job_title |-> AnalystJob.job_title,
                         job_experience_text |-> e,
                         candidates |-> cs, top_n |-> 1],
             result |-> r.result]]
    /\ UNCHANGED <<data, loaded, argsortTies, sortValuesTies, call, outcome,
                   result, locals, previous, appVars>>

\* the request is answered
ConcReturn(t) ==
    /\ threads[t].pc \in {"returned", "raised"}
    /\ threads' = [threads EXCEPT ![t] = Idle]
    /\ UNCHANGED <<data, loaded, argsortTies, sortValuesTies, call, outcome,
                   result, locals, previous, appVars>>

NextConc ==
    \E t \in Threads : ConcScore(t) \/ ConcBuild(t) \/ ConcRank(t) \/ ConcReturn(t)

SpecConc == InitConc /\ [][NextConc]_vars

-----------------------------------------------------------------------------
(* The recommender over a corpus of three jobs: one whose skills are the    *)
(* query's, one that shares one skill with the query, one that shares none. *)
(* The vocabulary of the model has two terms, so the second skill of the    *)
(* first job and of the query is the second term, "sql"; java, spring and   *)
(* django are words outside the vocabulary of the query.                    *)

J1(t) == Row(t, <<"python", "sql">>,    <<"2", "-", "5">>)
J2(t) == Row(t, <<"java", "spring">>,   <<"3", "-", "6">>)
J3(t) == Row(t, <<"python", "django">>, <<"0", "-", "2">>)

\* titles of the three jobs: none has a word of the query's title
ScenarioTitles == {<<"python">>, <<"sql">>}

Permutations3 == {p \in [1..3 -> 1..3] : {p[1], p[2], p[3]} = 1..3}

\* the three jobs in every order of the file, under every choice of titles
ScenarioCorpora ==
    {Array([k \in 1..3 |-> <<J1(t[1]), J2(t[2]), J3(t[3])>>[p[k]]]) :
        t \in [1..3 -> ScenarioTitles], p \in Permutations3}

ScenarioSkills == {<<"python", "sql">>, <<"java">>}
ScenarioTitle == <<"backend", "developer">>
ScenarioYears == {0, 3}

InitScenario ==
    /\ \E csv \in ScenarioCorpora : data = WithExperienceRange(csv)
    /\ loaded = FitSucceeds(data)
    /\ argsortTies \in TieOrders
    /\ sortValuesTies \in TieOrders
    /\ call = NoCall
    /\ outcome = "none"
    /\ result = <<>>
    /\ locals = NoLocals
    /\ previous = NoPrevious
    /\ threads = NoThreads
    /\ AppNotStarted

RecommendScenario == RecommendWith(ScenarioSkills, {ScenarioTitle}, ScenarioYears)

NextScenario == RecommendScenario \/ Return

SpecScenario == InitScenario /\ [][NextScenario]_vars

-----------------------------------------------------------------------------
(* The web application (src/backend/app.py): the recruiter's handlers that  *)
(* rewrite jobs_info.csv, the user's profile edit, and the recommendation   *)
(* route with its cache.  algorithm.py is imported once, when the           *)
(* application starts (app.py line 8): data and the fitted vectorizers are  *)
(* those of the file as it was then.  A row of the file carries job id,     *)
(* company id, Job Title, Key Skills and Job Experience; Salary, Job        *)
(* Description and company are written and kept the way Job Title is.       *)

MaxJobs == 3
MaxClock == 1

\* session.get('company_id') of a request: a company, or 0 for no session
NoSession == 0
Companies == {1, 2}
Sessions == Companies \cup {NoSession}

JobIds == {"7", "8"}

\* what a recruiter posts in the form of add_job and edit_job
JobForms ==
    {[title |-> <<"python">>, experience |-> <<"2", "-", "5">>, skills |-> <<"python">>],
     [title |-> <<"sql">>,    experience |-> <<"2", "-", "5">>, skills |-> <<"sql">>]}

\* what a user posts in the form of edit_profile
ProfileForms ==
    {[skills |-> <<"python">>, designation |-> <<"python">>, experience |-> 3],
     [skills |-> <<"sql">>,    designation |-> <<"sql">>,    experience |-> 3]}

\* lines 405-414
JobRow(job_id, company_id, form) ==
    [job_id        |-> job_id,
     company_id    |-> company_id,
     JobTitle      |-> form.title,
     KeySkills     |-> form.skills,
     JobExperience |-> form.experience]

\* algorithm.py lines 46-48 on the rows of the file
Imported(rows) ==
    [j \in 1..Len(rows) |->
        [job_id          |-> rows[j].job_id,
         company_id      |-> rows[j].company_id,
         JobTitle        |-> rows[j].JobTitle,
         KeySkills       |-> rows[j].KeySkills,
         JobExperience   |-> rows[j].JobExperience,
         ExperienceRange |-> clean_experience(rows[j].JobExperience)]]

\* the files the application starts on: two jobs of one company that differ
\* in title and skills, in either order
InitialFiles ==
    {<<JobRow("7", 1, fg[1]), JobRow("8", 1, fg[2])>> :
        fg \in {p \in JobForms \X JobForms : p[1] # p[2]}}

\* the application starts: algorithm.py is imported over the file as it is,
\* the user has a profile, nothing is cached
InitApp ==
    /\ \E rows \in InitialFiles, profile \in ProfileForms :
          /\ JOBS_FILE = [rows |-> rows, mtime |-> 0]
          /\ data = Imported(rows)
          /\ userinfo_collection = profile
    /\ loaded = FitSucceeds(data)
    /\ argsortTies = "stable"
    /\ sortValuesTies = "stable"
    /\ recommendations_collection = NoCache
    /\ call = NoCall
    /\ outcome = "none"
    /\ result = <<>>
    /\ locals = NoLocals
    /\ previous = NoPrevious
    /\ threads = NoThreads

\* df.to_csv(JOBS_FILE): the file holds the rows, and its modification time
\* is the time of the write, in the second of the last write or a later one
Written(rows) ==
    {[rows |-> rows, mtime |-> t] : t \in JOBS_FILE.mtime..MaxClock}

\* a handler that answers without touching the file, the profile or the cache
Answer(name, session, arguments, answer) ==
    /\ call' = [name |-> name, company_id |-> session, arguments |-> arguments]
    /\ outcome' = answer
    /\ result' = <<>>
    /\ locals' = NoLocals

\* POST /add_job, lines 386-420
add_job ==
    /\ outcome = "none"
    /\ loaded
    /\ \E company_id \in Sessions, job_id \in JobIds, form \in JobForms :
          IF company_id = NoSession
          THEN /\ Answer("add_job", company_id, <<job_id, form>>, "redirect recruiter_login")
               /\ UNCHANGED JOBS_FILE
          ELSE /\ Len(JOBS_FILE.rows) < MaxJobs
               /\ Answer("add_job", company_id, <<job_id, form>>, "redirect job_postings")
               /\ JOBS_FILE' \in Written(Append(JOBS_FILE.rows,
                                                JobRow(job_id, company_id, form)))
    /\ UNCHANGED <<data, loaded, argsortTies, sortValuesTies, previous, threads,
                   userinfo_collection, recommendations_collection>>

\* lines 441-448: the rows the mask df['job id'] == str(job_id) selects take
\* the values of the form
Edited(rows, job_id, form) ==
    [j \in 1..Len(rows) |->
        IF rows[j].job_id = job_id
        THEN JobRow(rows[j].job_id, rows[j].company_id, form)
        ELSE rows[j]]

\* line 435
JobsOf(rows, job_id, company_id) ==
    SelectSeq(rows, LAMBDA r : r.job_id = job_id /\ r.company_id = company_id)

\* POST /edit_job/<job_id>, lines 425-453
edit_job ==
    /\ outcome = "none"
    /\ loaded
    /\ \E company_id \in Sessions, job_id \in JobIds, form \in JobForms :
          IF company_id = NoSession
          THEN /\ Answer("edit_job", company_id, <<job_id, form>>, "redirect recruiter_login")
               /\ UNCHANGED JOBS_FILE
          ELSE IF JobsOf(JOBS_FILE.rows, job_id, company_id) = <<>>
          THEN /\ Answer("edit_job", company_id, <<job_id, form>>, "404 Job not found")
               /\ UNCHANGED JOBS_FILE
          ELSE /\ Answer("edit_job", company_id, <<job_id, form>>, "redirect job_postings")
               /\ JOBS_FILE' \in Written(Edited(JOBS_FILE.rows, job_id, form))
    /\ UNCHANGED <<data, loaded, argsortTies, sortValuesTies, previous, threads,
                   userinfo_collection, recommendations_collection>>

\* POST /delete_job/<job_id>, lines 455-466: the file is rewritten whether
\* or not a row went
delete_job ==
    /\ outcome = "none"
    /\ loaded
    /\ \E company_id \in Sessions, job_id \in JobIds :
          IF company_id = NoSession
          THEN /\ Answer("delete_job", company_id, <<job_id>>, "redirect recruiter_login")
               /\ UNCHANGED JOBS_FILE
          ELSE /\ Answer("delete_job", company_id, <<job_id>>, "redirect job_postings")
               /\ JOBS_FILE' \in Written(SelectSeq(JOBS_FILE.rows,
                      LAMBDA r : r.job_id # job_id \/ r.company_id # company_id))
    /\ UNCHANGED <<data, loaded, argsortTies, sortValuesTies, previous, threads,
                   userinfo_collection, recommendations_collection>>

\* POST /edit_profile, lines 217-241
edit_profile ==
    /\ outcome = "none"
    /\ loaded
    /\ \E form \in ProfileForms :
          /\ call' = [name |-> "edit_profile", form |-> form]
          /\ userinfo_collection' = form
    /\ outcome' = "redirect view_my_profile"
    /\ result' = <<>>
    /\ locals' = NoLocals
    /\ UNCHANGED <<data, loaded, argsortTies, sortValuesTies, previous, threads,
                   JOBS_FILE, recommendations_collection>>

\* companies_collection: the name of each company
CompanyName(company_id) == IF company_id = 1 THEN "acme" ELSE "globex"

NoRecommendations == <<[message |-> "No recommendations found!"]>>

\* lines 310-328: the list recommend_jobs returned, as the route serves it
Served(recommendations) ==
    IF recommendations = <<>> THEN NoRecommendations
    ELSE [k \in 1..Len(recommendations) |->
            [row             |-> recommendations[k].row,
             job             |-> recommendations[k].job,
             SkillScore      |-> recommendations[k].SkillScore,
             TitleScore      |-> recommendations[k].TitleScore,
             ExperienceScore |-> recommendations[k].ExperienceScore,
             FinalScore      |-> recommendations[k].FinalScore,
             company_name    |-> CompanyName(recommendations[k].job.company_id)]]

\* lines 292-296
CacheIsCurrent(cached, csv_last_modified, user_profile_snapshot) ==
    /\ cached # NoCache
    /\ cached.csv_last_modified = csv_last_modified
    /\ cached.user_profile_snapshot = user_profile_snapshot

\* GET /recommend_jobs, lines 271-342; recommend_jobs is algorithm.py's,
\* over the data of the import
recommend_jobs_route ==
    /\ outcome = "none"
    /\ loaded
    /\ call' = [name |-> "recommend_jobs_route"]
    /\ \E csv_last_modified \in {JOBS_FILE.mtime},
          user_profile_snapshot \in {userinfo_collection} :
          IF CacheIsCurrent(recommendations_collection, csv_last_modified,
                            user_profile_snapshot)
          THEN /\ outcome' = "rendered"
               /\ result' = recommendations_collection.recommendations
               /\ locals' = [from_cache |-> TRUE]
               /\ UNCHANGED recommendations_collection
          ELSE \E r \in {RecommendCall(Fitted(data), user_profile_snapshot.skills,
                                       user_profile_snapshot.designation,
                                       user_profile_snapshot.experience)} :
               IF r.outcome = "raised"
               THEN /\ outcome' = "raised"
                    /\ result' = <<>>
                    /\ locals' = [from_cache |-> FALSE]
                    /\ UNCHANGED recommendations_collection
               ELSE /\ outcome' = "rendered"
                    /\ result' = Served(r.result)
                    /\ locals' = [from_cache |-> FALSE]
                    /\ recommendations_collection' =
                          [recommendations       |-> Served(r.result),
                           csv_last_modified     |-> csv_last_modified,
                           user_profile_snapshot |-> user_profile_snapshot]
    /\ UNCHANGED <<data, loaded, argsortTies, sortValuesTies, previous, threads,
                   JOBS_FILE, userinfo_collection>>

NextApp ==
    \/ add_job \/ edit_job \/ delete_job \/ edit_profile
    \/ recommend_jobs_route \/ Return

SpecApp == InitApp /\ [][NextApp]_vars

-----------------------------------------------------------------------------
(* Properties of recommend_jobs *)

RecommendReturned == call.name = "recommend_jobs" /\ outcome = "returned"

ReturnedRows == {result[k].row : k \in 1..Len(result)}

\* C1: recommend_jobs returns at most 10 records, in order of non-increasing
\* Final Score
C1_AtMostTenDescending ==
    RecommendReturned =>
        /\ Len(result) <= TopK
        /\ \A k \in 1..(Len(result) - 1) :
               RLeq(result[k + 1].FinalScore, result[k].FinalScore)

\* C1 witness: ten records returned from a table of more than ten rows, the
\* first scoring strictly more than the last
C1_Witness ==
    /\ RecommendReturned
    /\ Len(data) > TopK
    /\ Len(result) = TopK
    /\ RLess(result[TopK].FinalScore, result[1].FinalScore)

\* C2: records with equal final scores appear in corpus order, and of two
\* rows with equal final scores the later one is returned only if the earlier
\* one is
C2_TiesInCorpusOrder ==
    (RecommendReturned /\ result # <<>>) =>
        /\ \A a, b \in 1..Len(result) :
               (a < b /\ REq(result[a].FinalScore, result[b].FinalScore))
                   => result[a].row < result[b].row
        /\ \A i, j \in 1..Len(data) :
               (i < j /\ j \in ReturnedRows
                      /\ REq(locals.final_scores[i], locals.final_scores[j]))
                   => i \in ReturnedRows

\* the highest final score over the corpus is exactly 0
BestScoreZero ==
    /\ \A j \in 1..Len(data) : RLeq(locals.final_scores[j], RZero)
    /\ \E j \in 1..Len(data) : REq(locals.final_scores[j], RZero)

\* C3: recommend_jobs returns the empty list, and does not raise, when the
\* corpus is empty or the highest final score is exactly 0
C3_EmptyWhenNothingScores ==
    (call.name = "recommend_jobs" /\ (Len(data) = 0 \/ BestScoreZero))
        => (outcome = "returned" /\ result = <<>>)

\* C4: the four scores of every returned record lie in [0, 1]
C4_ScoresInUnitInterval ==
    RecommendReturned =>
        \A k \in 1..Len(result) :
            /\ InUnit(result[k].SkillScore)
            /\ InUnit(result[k].TitleScore)
            /\ InUnit(result[k].ExperienceScore)
            /\ InUnit(result[k].FinalScore)

\* C4 witness: a returned record of a job whose range has its first number
\* above its last, with experience and skill scores strictly inside (0, 1)
C4_Witness ==
    /\ RecommendReturned
    /\ \E k \in 1..Len(result) :
           /\ result[k].job.ExperienceRange[1] > result[k].job.ExperienceRange[2]
           /\ RLess(RZero, result[k].ExperienceScore)
           /\ RLess(result[k].ExperienceScore, ROne)
           /\ RLess(RZero, result[k].SkillScore)
           /\ RLess(result[k].SkillScore, ROne)

AllExperienceScoresZero ==
    \A j \in 1..Len(data) : REq(locals.experience_scores[j], RZero)

\* C5: when every job's experience score is 0, recommend_jobs returns the
\* empty list
C5_EmptyWhenNoExperienceFit ==
    (call.name = "recommend_jobs" /\ loaded /\ AllExperienceScoresZero)
        => (outcome = "returned" /\ result = <<>>)

\* C5 witness: every experience score is 0 while some job has a positive
\* skill score and a positive title score, and the empty list is returned
C5_Witness ==
    /\ RecommendReturned
    /\ loaded
    /\ AllExperienceScoresZero
    /\ \E j \in 1..Len(data) :
           /\ RLess(RZero, locals.skills_similarity[j])
           /\ RLess(RZero, locals.title_similarity[j])
    /\ result = <<>>

-----------------------------------------------------------------------------
(* The candidate ranker's results *)

RankReturned == call.name = "rank_candidates_for_job" /\ outcome = "returned"

\* the match_score of the k-th candidate of the call
ScoreOf(k) == locals[k].cc["match_score"].float

\* the place of the k-th candidate when all candidates are in descending
\* order of match_score, those of equal score in the order they were passed
PlaceOf(k) ==
    1 + Cardinality({j \in 1..Len(locals) :
                        \/ RLess(ScoreOf(k), ScoreOf(j))
                        \/ REq(ScoreOf(k), ScoreOf(j)) /\ j < k})

\* C7: rank_candidates_for_job returns at most top_n candidates in
\* non-increasing order of match_score, candidates of equal match_score in
\* their input order: the result is exactly the first top_n elements of the
\* stable descending ordering of all the candidates.
C7_FirstTopNOfStableOrder ==
    RankReturned =>
        /\ Len(result) <= call.top_n
        /\ Len(result) = IF call.top_n < Len(call.candidates)
                         THEN call.top_n ELSE Len(call.candidates)
        /\ \A k \in 1..(Len(result) - 1) :
              RLeq(result[k + 1]["match_score"].float, result[k]["match_score"].float)
        /\ \A k \in 1..Len(locals) :
              PlaceOf(k) <= Len(result) => result[PlaceOf(k)] = locals[k].cc

\* two different candidates of equal score, one kept and one cut off
C7_Witness ==
    /\ RankReturned
    /\ \E i, j \in 1..Len(locals) :
          /\ i < j
          /\ call.candidates[i] # call.candidates[j]
          /\ REq(ScoreOf(i), ScoreOf(j))
          /\ PlaceOf(i) = Len(result)
          /\ PlaceOf(j) = Len(result) + 1

\* C8: every candidate's match_score is 0.5 * skill Jaccard + 0.3 * title
\* Jaccard + 0.2 * experience fit, lies in [0,1], and is above 0 whenever
\* the skill Jaccard is above 0, also when the title Jaccard is 0.
C8_AdditiveMatchScore ==
    RankReturned =>
        \A k \in 1..Len(locals) :
            /\ REq(RMul(RInt(10), ScoreOf(k)),
                   RAdd(RAdd(RMul(RInt(5), locals[k].s_skills),
                             RMul(RInt(3), locals[k].s_title)),
                        RMul(RInt(2), locals[k].s_exp)))
            /\ InUnit(ScoreOf(k))
            /\ RLess(RZero, locals[k].s_skills) => RLess(RZero, ScoreOf(k))

\* a candidate who shares a skill with the job and no title word
C8_Witness ==
    /\ RankReturned
    /\ \E k \in 1..Len(locals) :
          /\ RLess(RZero, locals[k].s_skills)
          /\ REq(locals[k].s_title, RZero)
          /\ RLess(locals[k].s_exp, ROne)

-----------------------------------------------------------------------------
(* Repeated calls *)

-----------------------------------------------------------------------------
(* The experience score *)

ExperienceReturned == call.name = "experience_similarity" /\ outcome = "returned"

\* C9: experience_similarity(years, (min, max)) is 1 when min <= years <= max,
\* max(0, 1 - (min - years)/(min + eps)) when years < min, and
\* max(0, 1 - (years - max)/(years + eps)) when years > max, for every years
\* and every parsed range.
C9_PiecewiseFormula ==
    ExperienceReturned =>
        LET years == call.candidate_exp
            min == call.job_exp_range[1]
            max == call.job_exp_range[2]
        IN  /\ (min <= years /\ years <= max) => REq(result, ROne)
            /\ years < min =>
                 REq(result, PyMax(RZero, RSub(ROne, RDiv(RInt(min - years),
                                                          RAdd(RInt(min), Eps)))))
            /\ years > max =>
                 REq(result, PyMax(RZero, RSub(ROne, RDiv(RInt(years - max),
                                                          RAdd(RInt(years), Eps)))))

\* C10: for a fixed job range (min, max), experience_similarity is strictly
\* increasing in the candidate's years over all years below min and strictly
\* decreasing over all years above max.
C10_StrictlyMonotone ==
    (/\ ExperienceReturned
     /\ previous.call.name = "experience_similarity"
     /\ previous.call.job_exp_range = call.job_exp_range
     /\ previous.call.candidate_exp < call.candidate_exp) =>
        /\ call.candidate_exp < call.job_exp_range[1] =>
              RLess(previous.result, result)
        /\ previous.call.candidate_exp > call.job_exp_range[2] =>
              RLess(result, previous.result)

-----------------------------------------------------------------------------
(* Properties of the parsers of experience *)

CleanReturned == call.name = "clean_experience" /\ outcome = "returned"

DigitAt(t) == {k \in 1..Len(t) : t[k] \in Digits}

\* the decimal value of the digits of t from index i to index j
RECURSIVE ValueOfRun(_, _, _)
ValueOfRun(t, i, j) ==
    IF j < i THEN 0 ELSE 10 * ValueOfRun(t, i, j - 1) + DigitVal(t[j])

\* the digit run that starts at the first digit of t, the one that ends at
\* its last digit
FirstInteger(t) ==
    LET i == Least(DigitAt(t))
        j == Least({k \in i..Len(t) : k + 1 \notin DigitAt(t)})
    IN  ValueOfRun(t, i, j)

LastInteger(t) ==
    LET j == CHOOSE k \in DigitAt(t) : \A m \in DigitAt(t) : m <= k
        i == CHOOSE k \in 1..j : /\ \A m \in k..j : m \in DigitAt(t)
                                 /\ k - 1 \notin DigitAt(t)
    IN  ValueOfRun(t, i, j)

C12_RangesOrdered ==
    \A j \in 1..Len(data) :
        data[j].ExperienceRange[1] <= data[j].ExperienceRange[2]

WindowReturned == call.name = "_parse_experience_window" /\ outcome = "returned"

\* the text the rules are tried on: lowercased, without its outer whitespace
SearchedText == Strip(Lower(Or(call.text, Str(<<>>)).chars))

WindowIs(w, a, b) == REq(w[1], a) /\ REq(w[2], b)

IsFresher(t) == t = <<"f", "r", "e", "s", "h", "e", "r">> \/ t = <<"f", "r", "e", "s", "h", "e", "r", "s">>
HasPlusYears(t) == \E k \in 1..Len(t) : PlusYearsAt(t, k)
HasRange(t) == \E k \in 1..Len(t) : RangeAt(t, k) # {}
HasYears(t) == \E k \in 1..Len(t) : YearsAt(t, k)

WindowOfSample(text, a, b) ==
    call.text = Str(text) => WindowIs(result, a, b)

\* C13: _parse_experience_window gives the window of the first rule that
\* matches the text, in the order fresher(s) -> (0, 0.5); "N+ year" ->
\* (N, N + 20); "A-B" or "A to B" (hyphen, en dash, em dash, "to") ->
\* (min(A, B), max(A, B)); "N year" -> (N, N); otherwise (0, 50).  So
\* "5+ years" gives (5, 25), "2-4 years" (2, 4), "fresher" (0, 0.5) and
\* "" (0, 50).
C13_FirstMatchingRule ==
    WindowReturned =>
        LET t == SearchedText
        IN  /\ IsFresher(t) => WindowIs(result, RZero, RFrac(1, 2))
            /\ (~IsFresher(t) /\ HasPlusYears(t)) =>
                  \E k \in 1..Len(t) :
                      /\ PlusYearsAt(t, k)
                      /\ WindowIs(result, NumberAt(t, k),
                                  RAdd(NumberAt(t, k), RInt(20)))
            /\ (~IsFresher(t) /\ ~HasPlusYears(t) /\ HasRange(t)) =>
                  \E k \in 1..Len(t) : \E b \in RangeAt(t, k) :
                      /\ RLeq(result[1], result[2])
                      /\ \/ WindowIs(result, NumberAt(t, k), NumberAt(t, b))
                         \/ WindowIs(result, NumberAt(t, b), NumberAt(t, k))
            /\ (~IsFresher(t) /\ ~HasPlusYears(t) /\ ~HasRange(t) /\ HasYears(t)) =>
                  \E k \in 1..Len(t) :
                      /\ YearsAt(t, k)
                      /\ WindowIs(result, NumberAt(t, k), NumberAt(t, k))
            /\ (~IsFresher(t) /\ ~HasPlusYears(t) /\ ~HasRange(t) /\ ~HasYears(t)) =>
                  WindowIs(result, RZero, RInt(50))
            /\ WindowOfSample(<<"5", "+", " ", "y", "e", "a", "r", "s">>, RInt(5), RInt(25))
            /\ WindowOfSample(<<"2", "-", "4", " ", "y", "e", "a", "r", "s">>, RInt(2), RInt(4))
            /\ WindowOfSample(<<"f", "r", "e", "s", "h", "e", "r">>, RZero, RFrac(1, 2))
            /\ WindowOfSample(<<>>, RZero, RInt(50))
            /\ WindowOfSample(<<"5", " ", "-", " ", "2", " ", "y", "r", "s">>, RInt(2), RInt(5))
            /\ WindowOfSample(<<"2", " ", "y", "e", "a", "r", "s", " ", "3", "+", " ", "y", "e", "a", "r", "s">>, RInt(3), RInt(23))
            /\ WindowOfSample(<<"1", "0", "-", "1", "2", " ", "y", "e", "a", "r", "s", " ", "3", "+", " ", "y", "r", "s">>, RInt(10), RInt(12))

\* a text that the plus rule, the range rule and, leftmost, the years rule match
C13_Witness ==
    /\ WindowReturned
    /\ call.text = Str(<<"2", " ", "y", "e", "a", "r", "s", " ", "3", "+", " ", "y", "e", "a", "r", "s", " ", "4", "-", "5">>)
    /\ HasPlusYears(SearchedText) /\ HasRange(SearchedText) /\ HasYears(SearchedText)
    /\ WindowIs(result, RInt(3), RInt(23))

FitReturned == call.name = "_experience_fit" /\ outcome = "returned"

\* the years a value of a candidate's experience stands for: a number is
\* itself, a text that is a decimal literal is its value, anything else is
\* 0 years
YearsOfValue(x) ==
    CASE x.type = "int" -> RInt(x.int)
      [] x.type = "float" /\ "nan" \notin DOMAIN x -> x.float
      [] x.type = "str" /\ SignedDecimal(Strip(x.chars)).ok ->
            SignedDecimal(Strip(x.chars)).v
      [] OTHER -> RZero

\* fit = max(0, 1/(1 + distance/2)), that is fit * (2 + distance) = 2 for a
\* distance above 0
FitAtDistance(fit, distance) ==
    REq(RMul(fit, RAdd(RInt(2), distance)), RInt(2))

FitOfYears(fit, q, a, b) ==
    /\ (RLeq(a, q) /\ RLeq(q, b)) => REq(fit, ROne)
    /\ RLess(q, a) => FitAtDistance(fit, RSub(a, q))
    /\ (RLeq(a, q) /\ RLess(b, q)) => FitAtDistance(fit, RSub(q, b))

\* C14: _experience_fit returns 1.0 for years within the window [min, max],
\* otherwise max(0, 1/(1 + distance/2)) with distance the shortfall below min
\* or the excess above max; a missing or non-numeric experience value counts
\* as 0 years.
C14_FitOfYearsOrZero ==
    FitReturned =>
        FitOfYears(result, YearsOfValue(call.experience_years),
                   call.window[1], call.window[2])

\* the same for the values other than nan
FitOfEveryNumber ==
    (FitReturned /\ ~IsNaN(ToFloat(call.experience_years))) => C14_FitOfYearsOrZero

-----------------------------------------------------------------------------
(* Properties of rank_candidates_for_job on malformed input *)

RankCalled == call.name = "rank_candidates_for_job" /\ outcome # "none"

\* C15: rank_candidates_for_job never raises on malformed input: whatever the
\* value of the job's experience text (a text, None, or the missing-value
\* marker of the jobs CSV) and whatever fields the candidate records lack,
\* the call completes.
C15_NeverRaises == RankCalled => outcome = "returned"

\* C16: the candidate's title token set is built from the candidate's title
\* field whenever that field is present and non-empty; headline,
\* desired_title and the skills are fallbacks for a candidate without a title.
C16_TitleFieldFirst ==
    RankReturned =>
        \A k \in 1..Len(call.candidates) :
            Truthy(Get(call.candidates[k], "title")) =>
                REq(locals[k].s_title,
                    _jaccard(_split_skills(call.job_title),
                             _split_skills(Get(call.candidates[k], "title"))))

-----------------------------------------------------------------------------
(* The posting for a data analyst *)

AnalystsRanked ==
    /\ RankReturned
    /\ call.job_skills = AnalystJob.job_skills
    /\ call.job_title = AnalystJob.job_title
    /\ call.job_experience_text = AnalystJob.job_experience_text

PlacesOf(c) == {k \in 1..Len(call.candidates) : call.candidates[k] = c}

\* C20: for the job (skills "python, sql", title "data analyst", experience
\* "2-4 years") and the candidates C1 (skills "python, sql, excel",
\* experience 3) and C2 (skills "java", experience 10), C1 has experience
\* fit 1.0, C2 has skill Jaccard 0, the match_score of C1 is strictly above
\* that of C2, and C1 is returned first.
C20_AnalystBeforeDeveloper ==
    AnalystsRanked =>
        /\ \A k \in PlacesOf(AnalystWithExcel) : REq(locals[k].s_exp, ROne)
        /\ \A k \in PlacesOf(JavaDeveloper) : REq(locals[k].s_skills, RZero)
        /\ \A i \in PlacesOf(AnalystWithExcel), j \in PlacesOf(JavaDeveloper) :
              RLess(ScoreOf(j), ScoreOf(i))
        /\ (PlacesOf(AnalystWithExcel) # {} /\ call.top_n >= 1) =>
              /\ Len(result) >= 1
              /\ result[1]["skills"] = AnalystWithExcel.skills
              /\ \A j \in PlacesOf(JavaDeveloper) :
                    RLess(ScoreOf(j), result[1]["match_score"].float)

C20_Witness ==
    /\ AnalystsRanked
    /\ call.candidates = <<JavaDeveloper, AnalystWithExcel>>
    /\ call.top_n = 1
    /\ result[1]["skills"] = AnalystWithExcel.skills
    /\ REq(result[1]["match_score"].float, RFrac(8, 15))

-----------------------------------------------------------------------------
(* Queries outside the vocabulary *)

\* the query's two vectors are zero: no term of its skills is in the
\* vocabulary of the skills column, none of its title in that of the titles
ZeroNormQuery ==
    /\ call.name = "recommend_jobs"
    /\ loaded
    /\ Transform(SkillsVocabulary(data), call.skills) = <<0, 0>>
    /\ Transform(TitleVocabulary(data), call.title) = <<0, 0>>

\* C19: when the query's skill text and title text share no vocabulary term
\* with the corpus, recommend_jobs raises no exception, every similarity is
\* 0 (nothing is rescaled), and the result is the empty list.
C19_ZeroQueryGivesEmptyList ==
    ZeroNormQuery =>
        /\ outcome = "returned"
        /\ result = <<>>
        /\ \A j \in 1..Len(data) :
              /\ REq(locals.skills_similarity[j], RZero)
              /\ REq(locals.title_similarity[j], RZero)
              /\ REq(locals.final_scores[j], RZero)

\* a zero query against a corpus with a job the query's experience fits
C19_Witness ==
    /\ ZeroNormQuery
    /\ outcome = "returned"
    /\ result = <<>>
    /\ Len(data) >= 2
    /\ \E j \in 1..Len(data) : REq(locals.experience_scores[j], ROne)

-----------------------------------------------------------------------------
(* The inputs of the two scoring functions after a call *)

AnnotationKeys == {"match_score", "experience_years", "skills_text"}

\* the caller's candidate records are as they were passed
CandidatesAsPassed ==
    \A k \in 1..Len(call.candidates) : locals[k].c = call.candidates[k]

\* C17: scoring never mutates its inputs: after rank_candidates_for_job
\* returns, every candidate record passed in has the keys and values it had
\* before the call, and a call of recommend_jobs leaves the corpus table and
\* its Experience Range column unchanged.
C17_InputsUnchanged ==
    [][/\ RankReturned' => CandidatesAsPassed'
       /\ call'.name = "recommend_jobs" => data' = data]_vars

\* a call of recommend_jobs has returned rows with their scores, and then a
\* call of rank_candidates_for_job returns annotated copies of records that
\* lack two of the three keys
C17_Witness ==
    /\ previous.call.name = "recommend_jobs"
    /\ previous.outcome = "returned"
    /\ previous.result # <<>>
    /\ RankReturned
    /\ Len(result) = 1
    /\ AnnotationKeys \subseteq DOMAIN result[1]
    /\ \A k \in 1..Len(call.candidates) :
          /\ AnnotationKeys \cap DOMAIN call.candidates[k] = {"experience_years"}
          /\ locals[k].cc # call.candidates[k]
          /\ locals[k].c = call.candidates[k]

-----------------------------------------------------------------------------
(* Calls of requests served at the same time *)

\* the call of thread t run alone against the module
Alone(c) ==
    IF c.name = "recommend_jobs"
    THEN RecommendCall(Fitted(data), c.skills, c.title, c.experience)
    ELSE rank_candidates_for_job(c.job_skills, c.job_title,
                                 c.job_experience_text, c.candidates, c.top_n)

\* the thread has come to the outcome r of a call
AsOutcome(thread, r) ==
    /\ thread.pc = r.outcome
    /\ thread.pc = "returned" => thread.result = r.result

EachCallAsAlone ==
    \A t \in Threads :
        threads[t].pc \in {"returned", "raised"} =>
            AsOutcome(threads[t], Alone(threads[t].call))

\* C18: in any interleaving of concurrent calls of recommend_jobs and
\* rank_candidates_for_job each call yields the result it yields when run
\* alone, and no step of a call writes the corpus table or the fitted state
\* of the module.  (Every state has a step, so the first conjunct speaks of
\* every reachable state.)
C18_InterleavedCallsAsAlone ==
    [][/\ EachCallAsAlone
       /\ data' = data
       /\ loaded' = loaded]_vars

\* one thread has returned rows while the other is between its two reads of
\* the module, for another query
C18_Witness ==
    /\ threads["t1"].pc = "returned"
    /\ threads["t1"].call.name = "recommend_jobs"
    /\ threads["t1"].result # <<>>
    /\ threads["t2"].pc = "scored"
    /\ threads["t2"].call.skills # threads["t1"].call.skills
    /\ threads["t2"].frame.indices[1] # threads["t1"].result[1].row
    /\ EachCallAsAlone

-----------------------------------------------------------------------------
(* The scores of the returned jobs *)

GatedAverage(skill, title, experience) ==
    RMul(RDiv(RAdd(skill, title), RInt(2)), experience)

\* C22: for every returned job, Final Score = ((Skill Score + Title Score)
\* / 2) * Experience Score; a job whose experience score is 0 has Final
\* Score 0 whatever its lexical scores.
C22_FinalIsGatedAverage ==
    RecommendReturned =>
        /\ \A k \in 1..Len(result) :
              /\ REq(result[k].FinalScore,
                     GatedAverage(result[k].SkillScore, result[k].TitleScore,
                                  result[k].ExperienceScore))
              /\ REq(result[k].ExperienceScore, RZero) =>
                    REq(result[k].FinalScore, RZero)
        /\ \A j \in 1..Len(data) :
              /\ REq(locals.final_scores[j],
                     GatedAverage(locals.skills_similarity[j],
                                  locals.title_similarity[j],
                                  locals.experience_scores[j]))
              /\ REq(locals.experience_scores[j], RZero) =>
                    REq(locals.final_scores[j], RZero)

\* a returned job with unequal lexical scores and a partial experience fit
C22_Witness ==
    /\ RecommendReturned
    /\ \E k \in 1..Len(result) :
          /\ ~REq(result[k].SkillScore, result[k].TitleScore)
          /\ RLess(RZero, result[k].TitleScore)
          /\ RLess(RZero, result[k].ExperienceScore)
          /\ RLess(result[k].ExperienceScore, ROne)
          /\ RLess(RZero, result[k].FinalScore)

-----------------------------------------------------------------------------
(* The rescaling of the two similarity vectors *)

\* the cosines of lines 62-63, before any rescaling
RawSkills ==
    cosine_similarity_manual(Transform(SkillsVocabulary(data), call.skills),
                             TfidfSkills(data))

RawTitles ==
    cosine_similarity_manual(Transform(TitleVocabulary(data), call.title),
                             TfidfTitles(data))

IsMaxOf(hi, v) ==
    /\ \E j \in 1..Len(v) : REq(v[j], hi)
    /\ \A j \in 1..Len(v) : RLeq(v[j], hi)

IsMinOf(lo, v) ==
    /\ \E j \in 1..Len(v) : REq(v[j], lo)
    /\ \A j \in 1..Len(v) : RLeq(lo, v[j])

\* every entry of scaled, times width, is the entry of raw less lo
ScaledBy(raw, scaled, lo, width) ==
    \A j \in 1..Len(raw) : REq(RMul(scaled[j], width), RSub(raw[j], lo))

\* scaled is raw with (x - lo)/(hi - lo + eps) applied to every entry
MinMaxScaled(raw, scaled, lo, hi) ==
    ScaledBy(raw, scaled, lo, RAdd(RSub(hi, lo), Eps))

\* any two jobs compare in scaled as they do in raw
SameOrder(raw, scaled) ==
    \A i \in 1..Len(raw) : \A j \in (i + 1)..Len(raw) :
        RCmp(raw[i], raw[j]) = RCmp(scaled[i], scaled[j])

\* scaled is what the claim says of raw
RescaledAsClaimed(raw, scaled) ==
    /\ Len(scaled) = Len(raw)
    /\ \E a \in 1..Len(raw) :
          /\ IsMaxOf(raw[a], raw)
          /\ IF RLess(RZero, raw[a])
             THEN \E b \in 1..Len(raw) :
                     /\ IsMinOf(raw[b], raw)
                     /\ MinMaxScaled(raw, scaled, raw[b], raw[a])
             ELSE scaled = raw
    /\ SameOrder(raw, scaled)

\* C23: each of the skill and title similarity vectors is rescaled on its
\* own as (x - min)/(max - min + eps) over the whole corpus and is left as
\* computed when its maximum is 0; rescaling keeps the relative order of the
\* jobs within the vector.
C23_MinMaxPerVector ==
    RecommendReturned =>
        /\ RescaledAsClaimed(RawSkills, locals.skills_similarity)
        /\ RescaledAsClaimed(RawTitles, locals.title_similarity)

\* raw has two different positive values and scaled differs from it
RescaledBetween(raw, scaled) ==
    \E i, j \in 1..Len(raw) :
        /\ RLess(RZero, raw[i])
        /\ RLess(raw[i], raw[j])
        /\ RLess(RZero, scaled[i])
        /\ ~REq(raw[j], scaled[j])

\* raw is all 0 and scaled is raw
LeftAsComputed(raw, scaled) ==
    /\ \A j \in 1..Len(raw) : REq(raw[j], RZero)
    /\ scaled = raw

\* the skills are rescaled between two different raw values while the
\* titles, all 0, are left as they are
C23_Witness ==
    /\ RecommendReturned
    /\ LeftAsComputed(RawTitles, locals.title_similarity)
    /\ RescaledBetween(RawSkills, locals.skills_similarity)

-----------------------------------------------------------------------------
(* The length of a non-empty result *)

Min(a, b) == IF a < b THEN a ELSE b

\* C27: a non-empty result of recommend_jobs has exactly min(10, corpus
\* size) records: the cut is by rank only, jobs with Final Score 0 included,
\* and the first record has a Final Score above 0.
C27_NonEmptyResultIsFull ==
    (RecommendReturned /\ result # <<>>) =>
        /\ Len(result) = Min(TopK, Len(data))
        /\ RLess(RZero, result[1].FinalScore)
        /\ Len(data) <= TopK => ReturnedRows = 1..Len(data)

\* ten records out of a larger corpus, the last of them with Final Score 0
C27_Witness ==
    /\ RecommendReturned
    /\ Len(data) > TopK
    /\ Len(result) = TopK
    /\ RLess(RZero, result[1].FinalScore)
    /\ REq(result[TopK].FinalScore, RZero)

-----------------------------------------------------------------------------
(* Jobs at the minimum of a similarity vector *)

\* where raw has a positive maximum, scaled is 0 at every job at the minimum
\* of raw and below 1 everywhere
FloorAtZero(raw, scaled) ==
    (\E j \in 1..Len(raw) : RLess(RZero, raw[j])) =>
        /\ \A j \in 1..Len(raw) :
              (\A i \in 1..Len(raw) : RLeq(raw[j], raw[i])) => REq(scaled[j], RZero)
        /\ \A j \in 1..Len(raw) : RLess(scaled[j], ROne)

AllEqual(v) == \A i, j \in 1..Len(v) : REq(v[i], v[j])

\* every job has the same positive raw skill similarity and the same raw
\* title similarity
UniformCorpus(skills, titles) ==
    /\ Len(skills) > 0
    /\ RLess(RZero, skills[1])
    /\ AllEqual(skills)
    /\ AllEqual(titles)

\* the two halves of the statement below, for the raw vectors of the call
FloorAndEmptyList(skills, titles) ==
    /\ FloorAtZero(skills, locals.skills_similarity)
    /\ FloorAtZero(titles, locals.title_similarity)
    /\ UniformCorpus(skills, titles) =>
          /\ result = <<>>
          /\ \A j \in 1..Len(data) : REq(locals.final_scores[j], RZero)

\* C28: whenever a similarity vector has a positive maximum, every job at
\* the vector's minimum gets the normalized score 0 and every score is
\* below 1; so when all jobs have the same positive raw skill similarity
\* and the same raw title similarity, every final score is 0 and
\* recommend_jobs returns the empty list.
C28_UniformCorpusGivesEmptyList ==
    RecommendReturned => FloorAndEmptyList(RawSkills, RawTitles)

\* a corpus of one job that the query matches exactly in skills and title
\* and fits in experience
ExactMatchOfOneJob(skills, titles) ==
    /\ Len(data) = 1
    /\ REq(skills[1], ROne)
    /\ REq(titles[1], ROne)
    /\ REq(locals.experience_scores[1], ROne)

C28_Witness ==
    /\ RecommendReturned
    /\ ExactMatchOfOneJob(RawSkills, RawTitles)
    /\ result = <<>>

-----------------------------------------------------------------------------
(* Token sets and their Jaccard similarity *)

SplitReturned == call.name = "_split_skills" /\ outcome = "returned"
JaccardReturned == call.name = "_jaccard" /\ outcome = "returned"

\* the places where a text is cut: before it, after it, at each separator
Cuts(t) == {0, Len(t) + 1} \cup {k \in 1..Len(t) : t[k] \in {",", ";", "/", "|"}}

\* the pieces between two neighbouring cuts
Pieces(t) ==
    {SubSeq(t, c[1] + 1, c[2] - 1) :
        c \in {d \in Cuts(t) \X Cuts(t) :
                  /\ d[1] < d[2]
                  /\ \A n \in Cuts(t) : ~(d[1] < n /\ n < d[2])}}

Inked(p) == {k \in 1..Len(p) : p[k] \notin Whitespace}

\* a piece without the whitespace around it
Trimmed(p) ==
    IF Inked(p) = {} THEN <<>>
    ELSE SubSeq(p, Least(Inked(p)),
                CHOOSE k \in Inked(p) : \A m \in Inked(p) : m <= k)

TokensOf(pieces) == {Lower(Trimmed(p)) : p \in pieces} \ {<<>>}

\* C24: _split_skills yields the set of the non-empty, trimmed, lowercased
\* pieces of a text split on comma, semicolon, slash and pipe, and the empty
\* set for None; _jaccard(a, b) is |a & b| / |a | b| for two non-empty sets
\* and 0 when either is empty, so it is symmetric, lies in [0, 1] and is 1
\* exactly when the two sets are equal and non-empty.
C24_TokenSetsAndJaccard ==
    /\ SplitReturned =>
          /\ call.s.type = "NoneType" => result = {}
          /\ call.s.type = "str" => result = TokensOf(Pieces(call.s.chars))
          /\ call.s = Str(<<"P", "y", "t", "h", "o", "n", ",", " ", "S", "Q", "L", " ", ";", ";", " ", "j", "a", "v", "a", "|", "c", " ", "/", " ", "R">>) =>
                result = {<<"p", "y", "t", "h", "o", "n">>, <<"s", "q", "l">>, <<"j", "a", "v", "a">>, <<"c">>, <<"r">>}
    /\ JaccardReturned =>
          /\ (call.a # {} /\ call.b # {}) =>
                REq(result, RFrac(Cardinality(call.a \cap call.b),
                                  Cardinality(call.a \cup call.b)))
          /\ (call.a = {} \/ call.b = {}) => REq(result, RZero)
          /\ REq(result, _jaccard(call.b, call.a))
          /\ InUnit(result)
          /\ REq(result, ROne) <=> (call.a = call.b /\ call.a # {})

\* a text with a blank piece gives the one name that is left
SplitOfBlankPieces ==
    /\ SplitReturned
    /\ call.s = Str(<<" ", ",", "S", "Q", "L">>)
    /\ result = {<<"s", "q", "l">>}

\* two different sets that share one of three names
C24_Witness ==
    /\ JaccardReturned
    /\ Cardinality(call.a) = 2
    /\ Cardinality(call.b) = 2
    /\ REq(result, RFrac(1, 3))

-----------------------------------------------------------------------------
(* The three jobs of the first scenario *)

ScenarioCall ==
    /\ RecommendReturned
    /\ call.skills = <<"python", "sql">>
    /\ call.title = ScenarioTitle
    /\ call.experience = 3

\* C21: over the three jobs of the scenario, a query with the skills of the
\* first job, the title "backend developer" and 3 years gets the three jobs
\* back: the job with both skills first, the job with one of them second, the
\* job with none of them last, with Final Scores that fall from each to the
\* next.
C21_ScenarioOrder ==
    ScenarioCall =>
        /\ Len(result) = 3
        /\ result[1].job.KeySkills = <<"python", "sql">>
        /\ result[2].job.KeySkills = <<"python", "django">>
        /\ result[3].job.KeySkills = <<"java", "spring">>
        /\ RLess(result[2].FinalScore, result[1].FinalScore)
        /\ RLess(result[3].FinalScore, result[2].FinalScore)
        /\ RLess(result[2].SkillScore, result[1].SkillScore)
        /\ REq(result[3].SkillScore, RZero)

\* the scenario's query answered over a file that lists the jobs in the
\* opposite order
C21_Witness ==
    /\ ScenarioCall
    /\ data[1].KeySkills = <<"java", "spring">>
    /\ data[2].KeySkills = <<"python", "django">>
    /\ data[3].KeySkills = <<"python", "sql">>
    /\ result[1].row = 3
    /\ REq(result[1].ExperienceScore, ROne)
    /\ RLess(result[2].ExperienceScore, ROne)

-----------------------------------------------------------------------------
(* The jobs file under the recruiter's handlers *)

\* a POST to edit_job is answered in this step
EditJobStep == call.name = "none" /\ call'.name = "edit_job"

\* the rows of companies other than company_id are, place by place, the same
\* in before and after
OtherCompaniesUnchanged(before, after, company_id) ==
    /\ Len(after) = Len(before)
    /\ \A j \in 1..Len(before) :
          before[j].company_id # company_id => after[j] = before[j]

\* C25: a POST to edit_job(job_id) leaves every row of the jobs file whose
\* company id differs from the company_id of the session unchanged, also
\* when another company has a job with the same job id.
C25_EditJobKeepsOtherCompanies ==
    [][EditJobStep =>
          OtherCompaniesUnchanged(JOBS_FILE.rows, JOBS_FILE'.rows,
                                  call'.company_id)]_vars

\* a job of company 2 that took the values company 1 posted for its own job
\* of the same job id
EditedAcrossCompanies ==
    /\ call.name = "edit_job"
    /\ outcome = "redirect job_postings"
    /\ call.company_id = 1
    /\ \E j \in 1..Len(JOBS_FILE.rows) :
          /\ JOBS_FILE.rows[j].company_id = 2
          /\ JOBS_FILE.rows[j].job_id = call.arguments[1]
          /\ JOBS_FILE.rows[j].KeySkills = call.arguments[2].skills

-----------------------------------------------------------------------------
(* The recommendations the route serves *)

RouteRendered == call.name = "recommend_jobs_route" /\ outcome = "rendered"

\* the jobs file as it is can be imported: it has rows and both fits succeed
FileFits == Len(JOBS_FILE.rows) > 0 /\ FitSucceeds(Imported(JOBS_FILE.rows))

\* recommend_jobs over the file as it is, for the profile as it is, as served
RankingOfFile(rows, profile) ==
    Served(recommend_jobs(rows, Fitted(rows), argsortTies, sortValuesTies,
                          profile.skills, profile.designation,
                          profile.experience).result)

\* a cached list is served only under the file time and profile it was
\* stored with
CacheServedOnlyWhenCurrent ==
    (RouteRendered /\ locals.from_cache) =>
        /\ recommendations_collection.csv_last_modified = JOBS_FILE.mtime
        /\ recommendations_collection.user_profile_snapshot = userinfo_collection

\* C26: after any sequence of add_job, edit_job, delete_job and profile
\* edits, the list recommend_jobs_route serves, cached or computed, is the
\* ranking of the jobs file as it is now for the user's skills, designation
\* and experience as they are now, and a cached list is served only when its
\* stored file time and profile snapshot are the current ones.
C26_ServedIsRankingOfCurrentFile ==
    /\ (RouteRendered /\ FileFits) =>
          result = RankingOfFile(Imported(JOBS_FILE.rows), userinfo_collection)
    /\ CacheServedOnlyWhenCurrent

\* the list is computed and equals the ranking of the file
ServedFreshAndCurrent ==
    /\ RouteRendered
    /\ ~locals.from_cache
    /\ FileFits
    /\ result # NoRecommendations
    /\ result = RankingOfFile(Imported(JOBS_FILE.rows), userinfo_collection)

\* the list is computed after a job was added, and lacks that job
ServedWithoutAddedJob ==
    /\ RouteRendered
    /\ ~locals.from_cache
    /\ Len(JOBS_FILE.rows) = 3
    /\ Len(result) = 2
    /\ Len(RankingOfFile(Imported(JOBS_FILE.rows), userinfo_collection)) = 3

====
